---- MODULE Spec2Model ----
(***************************************************************************)
(* Verification model of the hackaday.io spam hunter (package hadsh).      *)
(*                                                                         *)
(* Two state machines share this module:                                   *)
(*                                                                         *)
(*   SpecApi  the rate limited HTTP client, HackadayAPI.api_fetch, driven  *)
(*            by the coroutines that share the one client object;          *)
(*   Spec     the crawler's inspection pipeline (update_user_from_data,    *)
(*            _inspect_user, the NewUser and DeferredUser drain loops)     *)
(*            together with the moderator's ClassifyHandler.post, all      *)
(*            running as coroutines on one IOLoop and sharing one store.   *)
(*                                                                         *)
(* A coroutine gives up control only at a yield, so one action is the code *)
(* from one yield to the next.  An SQL statement is modelled by the effect *)
(* it asks of the store; a helper is modelled by the contract of its call. *)
(***************************************************************************)
EXTENDS Integers, Sequences, FiniteSets, TLC

\* ------------------------------------------------------------------------
\* Bounds of the model
\* ------------------------------------------------------------------------

\* Number of coroutines that call api_fetch on the shared client.
NumCallers == 3

\* Last instant of the model clock (the clock stops there).
MaxTime == 6

\* rqlim_time, the minimum interval the client keeps between requests, in
\* clock units (a constructor argument; RQLIM_TIME is its default).
RqlimTime == 2

Callers == 1..NumCallers

\* Highest user id the platform knows.
MaxUser == 2

\* Number of ticks and requests a run of the model starts.
MaxOps == 3

\* Number of coroutines (ticks and requests) under way at the same time.
MaxActive == 2

\* The longest score list of the scoring specification.
MaxScores == 11

\* The configured defer_max_count (config['defer_max_count']).
defer_max_count == 2

Users == 1..MaxUser

\* The rows of the "group" table.
Groups == {"admin", "auto_legit", "auto_suspect", "legit", "suspect"}
ManualGroups == {"legit", "suspect"}
AutoGroups == {"auto_legit", "auto_suspect"}

\* The things the corpus counts: host names, words, pairs of adjacent words.
Hostnames == {"h1"}
Words == {"w1"}
Pairs == {"w1w1"}
Items == Hostnames \cup Words \cup Pairs

\* What one request can end in: a response, an HTTPError with status 403,
\* an HTTPError with another status, a ConnectionResetError, a gaierror.
Outcomes == {"ok", "http403", "httperr", "reset", "gaierror"}

\* Back-off after a 403 and after a connection reset, in clock units.
FORBIDDEN_403 == 4
FORBIDDEN_RESET == 1

\* Pages of the newest-users listing that have users, and the last day of
\* the clock of datetime.now, whose unit is fifteen days.
MaxPage == 5
MaxDay == 4

\* Rows of "deferred_user" in the runs of the deferred tick on its own.
MaxDeferred == 53

\* The configuration key defer_delay, in units of the clock of the store.
defer_delay == 1

\* 2592000.0 seconds, and the pages one call may fetch.
THIRTY_DAYS == 2

\* The day the clock of datetime.now starts at.
FirstDay == THIRTY_DAYS + 1
MAX_PAGES == 10

VARIABLES
    \* --- HackadayAPI -----------------------------------------------------
    now,               \* IOLoop.time()
    rq_sem,            \* self._rq_sem: free slots of the semaphore
    last_rq,           \* self._last_rq
    forbidden_expiry,  \* self._forbidden_expiry, -1 for None
    cpc,               \* position of each caller inside api_fetch
    in_flight,         \* callers whose self._client.fetch is outstanding
    raw,               \* callers that called api_fetch itself, not _api_call
    \* history of the requests, for the rate limit properties
    last_end,          \* when the latest request completed, -1 before any
    last_end_ok,       \* whether that request returned a response
    last_out,          \* what that request ended in, "none" before any
    start_gap,         \* time between that completion and the start of the
                       \* latest request started after it, -1 if none
    \* --- the store ------------------------------------------------------
    user,              \* "user": the ids that have a row
    user_group,        \* "user_group_assoc": pairs <<user_id, group name>>
    new_user,          \* "new_user": the inbox of ids
    deferred_user,     \* "deferred_user": rows [user_id, inspections]
    glob,              \* "hostname", "word", "word_adjacent": score, count
    user_stat,         \* "user_hostname", "user_word", "user_word_adjacent"
    user_detail,       \* "user_detail": the ids that have a row
    trait,             \* "trait": score and count of the trait spamname
    user_trait,        \* "user_trait": the ids that have a row
    \* --- Crawler and the request handlers -------------------------------
    deleted_users,     \* Crawler._deleted_users
    proc,              \* the coroutines that run update_user_from_data
    cls,               \* the coroutine of ClassifyHandler.post
    cls2,              \* the coroutine of a second execution of it
    nops,              \* ticks and requests started so far
    \* --- the drivers of the four background loops -----------------------
    lpc,               \* position of each loop's coroutine
    pending,           \* timeouts of each loop waiting on the IOLoop
    ldelay,            \* the delay of the latest add_timeout of each loop
    refresh_hist_page, \* self._refresh_hist_page: NoPage for None, else
                       \* a page number
    began_forbidden,   \* is_forbidden as the running tick read it
    touched,           \* what the running tick has done so far
    \* --- fetch_new_user_ids ----------------------------------------------
    page_refresh,      \* "newest_user_page_refresh": refresh_date by page
    utcnow,            \* datetime.datetime.now(tz=pytz.utc)
    fnu,               \* the coroutine of fetch_new_user_ids
    \* --- avatars --------------------------------------------------------
    avatar,            \* "avatar": rows [url, avatar_type, avatar]
    av,                \* the coroutines that ask for an avatar
    downloads          \* history: bodies received for each url

apiVars == <<now, rq_sem, last_rq, forbidden_expiry, cpc, in_flight, raw,
             last_end, last_end_ok, last_out, start_gap>>

storeVars == <<user, user_group, new_user, deferred_user, glob, user_stat,
               user_detail, trait, user_trait>>

crawlVars == <<deleted_users, proc, cls, cls2, nops>>

pageVars == <<page_refresh, utcnow, fnu>>

loopVars == <<lpc, pending, ldelay, refresh_hist_page, began_forbidden,
              touched, pageVars>>

avatarVars == <<avatar, av, downloads>>

vars == <<apiVars, storeVars, crawlVars, loopVars, avatarVars>>

\* ------------------------------------------------------------------------
\* HackadayAPI (src/hadsh/hadapi/hadapi.py)
\* ------------------------------------------------------------------------

\* HackadayAPI.__init__: one slot, no request made, not forbidden.  The
\* IOLoop clock is far from the zero that _last_rq starts at.
ApiInit ==
    /\ now = RqlimTime
    /\ rq_sem = 1
    /\ last_rq = 0
    /\ forbidden_expiry = -1
    /\ cpc = [c \in Callers |-> "idle"]
    /\ in_flight = {}
    /\ raw = {}
    /\ last_end = -1
    /\ last_end_ok = TRUE
    /\ last_out = "none"
    /\ start_gap = -1

\* is_forbidden
is_forbidden ==
    IF forbidden_expiry = -1 THEN FALSE ELSE forbidden_expiry > now

\* _ratelimit_sleep: the delay still to wait at the instant t.
RatelimitDelay(t) == (last_rq + RqlimTime) - t

\* A coroutine enters api_fetch and waits for the semaphore.  It comes
\* through _api_call (the JSON API) or calls api_fetch itself (the HEAD of
\* a profile, the listing page of get_user_ids, an avatar).
ApiCall(c) ==
    /\ cpc[c] = "idle"
    /\ cpc' = [cpc EXCEPT ![c] = "acquire"]
    /\ \E direct \in BOOLEAN :
          raw' = IF direct THEN raw \cup {c} ELSE raw \ {c}
    /\ UNCHANGED <<now, rq_sem, last_rq, forbidden_expiry, in_flight,
                   last_end, last_end_ok, last_out, start_gap>>
    /\ UNCHANGED <<storeVars, crawlVars, loopVars>>
    /\ UNCHANGED avatarVars

\* A gate that lets every caller through.
SemFree_open == TRUE

\* The guard of Semaphore.acquire.
SemFree == rq_sem > 0

\* yield self._rq_sem.acquire(): the caller takes the slot and goes on to
\* _ratelimit_sleep.
ApiAcquire(c) ==
    /\ cpc[c] = "acquire"
    /\ SemFree
    /\ rq_sem' = rq_sem - 1
    /\ cpc' = [cpc EXCEPT ![c] = "sleep"]
    /\ UNCHANGED <<now, last_rq, forbidden_expiry, in_flight, raw,
                   last_end, last_end_ok, last_out, start_gap>>
    /\ UNCHANGED <<storeVars, crawlVars, loopVars>>
    /\ UNCHANGED avatarVars

\* _ratelimit_sleep is over (delay <= 0, or the sleep has elapsed) and
\* self._client.fetch is started.
ApiSend(c) ==
    /\ cpc[c] = "sleep"
    /\ RatelimitDelay(now) <= 0
    /\ cpc' = [cpc EXCEPT ![c] = "fetch"]
    /\ in_flight' = in_flight \cup {c}
    /\ start_gap' = IF last_end = -1 THEN -1 ELSE now - last_end
    /\ UNCHANGED <<now, rq_sem, last_rq, forbidden_expiry, raw,
                   last_end, last_end_ok, last_out>>
    /\ UNCHANGED <<storeVars, crawlVars, loopVars>>
    /\ UNCHANGED avatarVars

\* _last_rq after a request that ended in outcome o at the instant t: only
\* the path of a response stamps it.
LastRqAfter(o, t) == IF o = "ok" THEN t ELSE last_rq

\* A connection reset backed off like a 403.
ForbiddenAfter_same(o, t) ==
    IF o \in {"http403", "reset"} THEN t + FORBIDDEN_403 ELSE forbidden_expiry

\* _forbidden_expiry after a request that ended in outcome o at t.
ForbiddenAfter(o, t) ==
    CASE o = "http403" -> t + FORBIDDEN_403
      [] o = "reset"   -> t + FORBIDDEN_RESET
      [] OTHER         -> forbidden_expiry

\* _api_call after api_fetch has returned a response: "our service is
\* back".  A caller of api_fetch itself has no such line.
ApiCallReset(c, o, fe) == IF o = "ok" /\ c \notin raw THEN -1 ELSE fe

\* A finally clause that only a response reaches.
Released_okOnly(sem, o) == IF o = "ok" THEN sem + 1 ELSE sem

\* finally: self._rq_sem.release(), whatever the try block ended in.
Released(sem, o) == sem + 1

\* The request of caller c completes with outcome o; the response is
\* returned or the exception re-raised, and the finally clause releases
\* the semaphore before the coroutine yields again.
ApiComplete(c, o) ==
    /\ cpc[c] = "fetch"
    /\ in_flight' = in_flight \ {c}
    /\ last_rq' = LastRqAfter(o, now)
    /\ forbidden_expiry' = ApiCallReset(c, o, ForbiddenAfter(o, now))
    /\ rq_sem' = Released(rq_sem, o)
    /\ cpc' = [cpc EXCEPT ![c] = "idle"]
    /\ last_end' = now
    /\ last_end_ok' = (o = "ok")
    /\ last_out' = o
    /\ start_gap' = -1
    /\ UNCHANGED <<now, raw>>
    /\ UNCHANGED <<storeVars, crawlVars, loopVars>>
    /\ UNCHANGED avatarVars

\* The IOLoop clock advances.
Tick ==
    /\ now < MaxTime
    /\ now' = now + 1
    /\ UNCHANGED <<rq_sem, last_rq, forbidden_expiry, cpc, in_flight, raw,
                   last_end, last_end_ok, last_out, start_gap>>
    /\ UNCHANGED <<storeVars, crawlVars, loopVars>>
    /\ UNCHANGED avatarVars

\* ------------------------------------------------------------------------
\* The store (src/hadsh/db/model.py and the SQL of crawler.py, server.py)
\* ------------------------------------------------------------------------

\* The value that stands for "no such row" in a global table, and in a
\* per-user counter table.
NoRow == [score |-> 0, count |-> -1]
NoCount == -1

HasRow(g, i) == g[i].count >= 0

\* User.get_groups
GroupsOf(ug, u) == {g \in Groups : <<u, g>> \in ug}

\* User.add_groups: INSERT ... ON CONFLICT DO NOTHING
add_groups(ug, u, gs) == ug \cup {<<u, g>> : g \in gs}

\* rm_groups: DELETE the memberships named
rm_groups(ug, u, gs) == ug \ {<<u, g>> : g \in gs}

\* The memberships left when the row of user u goes: the rows that refer
\* to a user go with it.
CascadeGroups(ug, u) == {m \in ug : m[1] # u}

\* The 404/410 branch without the note of the id.
DeletedAdd_skip(d, u) == d

\* self._deleted_users.add(user_data['id'])
DeletedAdd(d, u) == d \cup {u}

\* The store starts empty: discovery and inspection fill it.
StoreInit ==
    /\ user = {}
    /\ user_group = {}
    /\ new_user = {}
    /\ deferred_user = {}
    /\ glob = [i \in Items |-> NoRow]
    /\ user_stat = [u \in Users |-> [i \in Items |-> NoCount]]
    /\ user_detail = {}
    /\ trait = [score |-> 0, count |-> 0]
    /\ user_trait = {}

\* ------------------------------------------------------------------------
\* What the platform serves
\* ------------------------------------------------------------------------

\* The outcome of tokenising one user's profile, links, projects and pages:
\* how often each item was observed (adjacency is only tallied for texts of
\* more than two words) and whether a pattern or a link outside the
\* whitelist was found.
Profiles == {
    [freq |-> [i \in Items |-> 0], match |-> FALSE],
    [freq |-> [i \in Items |-> IF i = "w1" THEN 3 ELSE 0], match |-> FALSE],
    [freq |-> [i \in Items |-> CASE i = "w1" -> 3 [] i = "w1w1" -> 2
                                 [] OTHER -> 0],
     match |-> FALSE],
    [freq |-> [i \in Items |-> IF i \in {"w1", "h1"} THEN 1 ELSE 0],
     match |-> TRUE] }

NoFreq == [i \in Items |-> 0]

\* The users whose screen_name matches one of the NAME_PATTERNS.
SpammyNames == {1}

\* Account age against defer_min_age and defer_max_age.
Ages == {"young", "mid", "old"}

\* ------------------------------------------------------------------------
\* The heuristic score (crawler.py, _inspect_user)
\* ------------------------------------------------------------------------

\* A quotient score / count is kept as the pair <<score, count>>.
RatLess(a, b) == a[1] * b[2] < b[1] * a[2]
RatAdd(a, b) == <<a[1] * b[2] + b[1] * a[2], a[2] * b[2]>>

RECURSIVE SeqOfSet(_)
SeqOfSet(S) ==
    IF S = {} THEN <<>>
    ELSE LET x == CHOOSE y \in S : TRUE IN <<x>> \o SeqOfSet(S \ {x})

\* score.append(float(w.score) / float(w.count)) for every item of the
\* user whose global row has count > 0
ScoreList(g, freq) ==
    LET its == SeqOfSet({i \in Items : freq[i] > 0 /\ g[i].count > 0})
    IN [k \in 1..Len(its) |-> <<g[its[k]].score, g[its[k]].count>>]

RECURSIVE InsertSorted(_, _)
InsertSorted(x, sq) ==
    IF sq = <<>> THEN <<x>>
    ELSE IF RatLess(Head(sq), x) THEN <<Head(sq)>> \o InsertSorted(x, Tail(sq))
    ELSE <<x>> \o sq

\* score.sort()
RECURSIVE SortAsc(_)
SortAsc(sq) ==
    IF sq = <<>> THEN <<>> ELSE InsertSorted(Head(sq), SortAsc(Tail(sq)))

RECURSIVE SumRat(_)
SumRat(sq) == IF sq = <<>> THEN <<0, 1>> ELSE RatAdd(Head(sq), SumRat(Tail(sq)))

\* A score that sums the whole list.
Score_all(sq) == SumRat(sq)

\* score = sum(score[:10])
SCORE_TAKE == 10
Score(sq) ==
    LET st == SortAsc(sq)
    IN SumRat(SubSeq(st, 1, IF Len(st) < SCORE_TAKE THEN Len(st) ELSE SCORE_TAKE))

\* score < 0.5 and score < -0.5
ScoreBelowHalf(sq) == RatLess(Score(sq), <<1, 2>>)
ScoreBelowMinusHalf(sq) == RatLess(Score(sq), <<-1, 2>>)

\* abs(score) >= 0.5, which the code does not compute: kept as history.
ScoreStrong(sq) ==
    \/ ~RatLess(Score(sq), <<1, 2>>)
    \/ ~RatLess(<<-1, 2>>, Score(sq))

\* The deferral test of _inspect_user:
\*   (defer and (abs(score < 0.5) or (age < defer_min_age)))
\*       and (age < defer_max_age)
ShouldDefer(defer, belowHalf, age) ==
    /\ defer /\ (belowHalf \/ age = "young")
    /\ age # "old"

\* INSERT INTO "deferred_user" (..., 1) ON CONFLICT DO UPDATE SET
\* inspections=inspections+1
DeferUpsert(d, u) ==
    IF \E r \in d : r.user_id = u
    THEN {IF r.user_id = u
          THEN [r EXCEPT !.inspections = r.inspections + 1] ELSE r : r \in d}
    ELSE d \cup {[user_id |-> u, inspections |-> 1]}

\* DELETE FROM "deferred_user" WHERE user_id = u
DeferDelete(d, u) == {r \in d : r.user_id # u}

\* ------------------------------------------------------------------------
\* The coroutines of the crawler (src/hadsh/crawler/crawler.py)
\* ------------------------------------------------------------------------

\* "new": _background_inspect_new, "def": _background_inspect_deferred,
\* "fe": CallbackHandler.get, which calls update_user_from_data.
Procs == {"new", "def", "fe"}
Loops == {"new", "def"}

\* LIMIT 50 of the two drain queries
BATCH_LIMIT == 50

\* The locals of one call of update_user_from_data / _inspect_user.
NoCall == [u |-> 0, isNew |-> FALSE, classified |-> FALSE, match |-> FALSE,
           freq |-> NoFreq, score |-> <<>>, belowHalf |-> FALSE,
           belowMinusHalf |-> FALSE, strong |-> FALSE, age |-> "none"]

\* A coroutine between two ticks (or two requests).  History of a tick:
\* sel, the rows of "deferred_user" as they were selected, and listed, the
\* ids of the users the platform listed.
IdleProc ==
    [pc |-> "idle", ids |-> {}, batch |-> <<>>, call |-> NoCall,
     sel |-> {}, listed |-> {}]

CrawlInit ==
    /\ deleted_users = {}
    /\ proc = [p \in Procs |-> IdleProc]
    /\ cls = [pc |-> "idle", u |-> 0, v |-> "none", had |-> {}]
    /\ cls2 = [pc |-> "idle", u |-> 0, v |-> "none", had |-> {}]
    /\ nops = 0

\* The IOLoop can start one more tick or request.
CanStart ==
    /\ nops < MaxOps
    /\ Cardinality({p \in Procs : proc[p].pc # "idle"})
        + (IF cls.pc # "idle" THEN 1 ELSE 0)
        + (IF cls2.pc # "idle" THEN 1 ELSE 0) < MaxActive

\* fetch_new_user_ids, lines 1002-1028: the ids of a listing page that have
\* no User row are put in the inbox.
FetchNewUserIds(ids) ==
    /\ ids # {}
    /\ nops < MaxOps
    /\ nops' = nops + 1
    /\ new_user' = new_user \cup (ids \ user)
    /\ UNCHANGED <<user, user_group, deferred_user, glob, user_stat,
                   user_detail, deleted_users, proc, cls, cls2, trait, user_trait,
                   apiVars, loopVars>>
    /\ UNCHANGED avatarVars

\* SELECT user_id FROM "new_user" ORDER BY user_id DESC LIMIT 50
SelectNew(nu) == {i \in nu : Cardinality({j \in nu : j > i}) < BATCH_LIMIT}

\* The rows a deferred tick may pick whatever their inspect_time.
DeferredOpen_all(d) == d

\* inspections < defer_max_count, of the SELECT of the deferred tick
DeferredOpen(d) == {r \in d : r.inspections < defer_max_count}

\* The users of a batch, highest id first (the sort of the NewUser tick).
RECURSIVE SortDesc(_)
SortDesc(S) ==
    IF S = {} THEN <<>>
    ELSE LET m == CHOOSE x \in S : \A y \in S : y <= x
         IN <<m>> \o SortDesc(S \ {m})

\* Every order the platform can list the users of a batch in.
Orders(S) ==
    {sq \in [1..Cardinality(S) -> S] : \A x \in S : \E k \in DOMAIN sq : sq[k] = x}

\* A tick starts: the ids are selected.
StartTick(p, ids) ==
    [IdleProc EXCEPT !.pc = "get_users", !.ids = ids]

\* _background_inspect_new: the inbox is read.
NewSelect ==
    /\ proc["new"].pc = "idle"
    /\ CanStart
    /\ new_user # {}
    /\ proc' = [proc EXCEPT !["new"] = StartTick("new", SelectNew(new_user))]
    /\ nops' = nops + 1
    /\ UNCHANGED <<storeVars, deleted_users, cls, cls2, apiVars, loopVars>>
    /\ UNCHANGED avatarVars

\* _background_inspect_deferred: the rows with inspections left whose
\* inspect_time has passed are read; the clock decides which have.
DefSelect ==
    /\ proc["def"].pc = "idle"
    /\ CanStart
    /\ \E due \in SUBSET DeferredOpen(deferred_user) :
          /\ due # {}
          /\ Cardinality(due) <= BATCH_LIMIT
          /\ proc' = [proc EXCEPT
                 !["def"] = [StartTick("def", {r.user_id : r \in due})
                               EXCEPT !.sel = due]]
    /\ nops' = nops + 1
    /\ UNCHANGED <<storeVars, deleted_users, cls, cls2, apiVars, loopVars>>
    /\ UNCHANGED avatarVars

\* The tick (or the request) is over: the loop has logged what ended it
\* and scheduled its next tick.
EndTick(pr) == IdleProc

\* update_user_from_data is entered for user u.
EnterUser(pr, u) ==
    [pr EXCEPT !.pc = "u_fetch", !.call = [NoCall EXCEPT !.u = u]]

\* update_user_from_data has returned to its caller.
AfterUser(p, pr) ==
    IF p \in Loops /\ Len(pr.batch) > 1
    THEN EnterUser([pr EXCEPT !.batch = Tail(pr.batch)], pr.batch[2])
    ELSE IF p = "new" THEN [pr EXCEPT !.pc = "n_clean", !.batch = <<>>,
                                      !.call = NoCall]
    ELSE EndTick(pr)

\* update_user_from_data has raised e.  The deferred tick catches
\* InvalidUser and calls update_user_from_data again for the same user;
\* everything else ends the tick (or the request) in its except clause.
OnRaise(p, pr, e) ==
    IF p = "def" /\ e = "InvalidUser"
    THEN EnterUser(pr, pr.call.u)
    ELSE EndTick(pr)

\* user_data['users'] is the list sq: update_user_from_data is called for
\* its first user, or the loop over it is over at once.
UsersListed(p, pr, sq) ==
    IF sq = <<>> THEN AfterUser(p, [pr EXCEPT !.batch = <<>>])
    ELSE EnterUser([pr EXCEPT !.batch = sq,
                              !.listed = {sq[k] : k \in DOMAIN sq}], sq[1])

\* get_users(ids=ids): the request fails, or the platform answers with a
\* list of some of the users asked for, or with something that is no list.
GetUsers(p) ==
    /\ p \in Loops
    /\ proc[p].pc = "get_users"
    /\ \/ proc' = [proc EXCEPT ![p] = EndTick(@)]
       \/ \E R \in SUBSET proc[p].ids :
             \E sq \in (IF p = "new" THEN {SortDesc(R)} ELSE Orders(R)) :
                proc' = [proc EXCEPT ![p] = UsersListed(p, @, sq)]
       \/ proc' = [proc EXCEPT ![p] =
                    IF p = "new" THEN [@ EXCEPT !.pc = "n_clean"]
                    ELSE [@ EXCEPT !.pc = "d_mark"]]
    /\ UNCHANGED <<storeVars, deleted_users, cls, cls2, nops, apiVars, loopVars>>
    /\ UNCHANGED avatarVars

\* UPDATE "deferred_user" SET inspections=inspections+1 ... WHERE user_id
\* IN ids: the answer was no list.
DefMark ==
    /\ proc["def"].pc = "d_mark"
    /\ deferred_user' =
          {IF r.user_id \in proc["def"].ids
           THEN [r EXCEPT !.inspections = r.inspections + 1] ELSE r
           : r \in deferred_user}
    /\ proc' = [proc EXCEPT !["def"] = EndTick(@)]
    /\ UNCHANGED <<user, user_group, new_user, glob, user_stat, user_detail,
                   deleted_users, cls, cls2, nops, trait, user_trait,
                   apiVars, loopVars>>
    /\ UNCHANGED avatarVars

\* DELETE FROM "new_user" WHERE user_id IN (the ids of the tick that have a
\* User row)
NewClean ==
    /\ proc["new"].pc = "n_clean"
    /\ new_user' = new_user \ (proc["new"].ids \cap user)
    /\ proc' = [proc EXCEPT !["new"] = EndTick(@)]
    /\ UNCHANGED <<user, user_group, deferred_user, glob, user_stat,
                   user_detail, deleted_users, cls, cls2, nops, trait, user_trait,
                   apiVars, loopVars>>
    /\ UNCHANGED avatarVars

\* CallbackHandler.get: the platform has named the user who is logging in.
FeStart(u) ==
    /\ proc["fe"].pc = "idle"
    /\ CanStart
    /\ proc' = [proc EXCEPT !["fe"] = EnterUser(IdleProc, u)]
    /\ nops' = nops + 1
    /\ UNCHANGED <<storeVars, deleted_users, cls, cls2, apiVars, loopVars>>
    /\ UNCHANGED avatarVars

\* update_user_from_data: User.fetch
UFetch(p) ==
    /\ proc[p].pc = "u_fetch"
    /\ LET u == proc[p].call.u
       IN proc' = [proc EXCEPT
              ![p].call.isNew = (u \notin user),
              ![p].pc = IF u \notin user THEN "u_insert" ELSE "u_update"]
    /\ UNCHANGED <<storeVars, deleted_users, cls, cls2, nops, apiVars, loopVars>>
    /\ UNCHANGED avatarVars

\* update_user_from_data: INSERT INTO "user"; the id is the primary key.
UInsert(p) ==
    /\ proc[p].pc = "u_insert"
    /\ LET u == proc[p].call.u
       IN IF u \in user
          THEN /\ proc' = [proc EXCEPT ![p] = OnRaise(p, @, "StoreError")]
               /\ user' = user
          ELSE /\ user' = user \cup {u}
               /\ proc' = [proc EXCEPT ![p].pc = "i_enter"]
    /\ UNCHANGED <<user_group, new_user, deferred_user, glob, user_stat,
                   user_detail, deleted_users, cls, cls2, nops, trait, user_trait,
                   apiVars, loopVars>>
    /\ UNCHANGED avatarVars

\* update_user_from_data: the row exists; user.last_update = now; commit
UUpdate(p) ==
    /\ proc[p].pc = "u_update"
    /\ proc' = [proc EXCEPT ![p].pc = "i_enter"]
    /\ UNCHANGED <<storeVars, deleted_users, cls, cls2, nops, apiVars, loopVars>>
    /\ UNCHANGED avatarVars

\* _inspect_user: a deleted id returns at once; otherwise get_groups tells
\* whether the user has a verdict.
IEnter(p) ==
    /\ proc[p].pc = "i_enter"
    /\ LET u == proc[p].call.u
       IN proc' = [proc EXCEPT ![p] =
              IF u \in deleted_users THEN [@ EXCEPT !.pc = "u_post"]
              ELSE [@ EXCEPT !.pc = "i_head",
                             !.call.classified =
                                 (GroupsOf(user_group, u) \cap ManualGroups # {})]]
    /\ UNCHANGED <<storeVars, deleted_users, cls, cls2, nops, apiVars, loopVars>>
    /\ UNCHANGED avatarVars

\* A 5 minute test that lets every inspection go on.
RecentlyUpdated_never(isNew) == FALSE

\* The 5 minute test of _inspect_user on the last_update that
\* update_user_from_data has in hand: None for a row it has just inserted,
\* the current time for a row it found.
RecentlyUpdated(isNew) == ~isNew

\* An inspection that tokenises whatever verdict the user has.
SkipsTokenising_recentOnly(recent, classified) == recent

\* _inspect_user after the HEAD: `return` for a row updated in the last 5
\* minutes; `if classified: match = False`, the else branch being all of
\* the tokenising, the counters, the score, the deferral and the detail,
\* and neither group branch is taken for a classified user.
SkipsTokenising(recent, classified) == recent \/ classified

HeadOutcomes == {"ok", "gone", "httperr"}

\* _inspect_user: the HEAD of the profile URL.  404/410 goes on to delete
\* the user, another error status is raised, a response goes on unless the
\* user was updated in the last 5 minutes or has a verdict.
IHead(p, o) ==
    /\ proc[p].pc = "i_head"
    /\ proc' = [proc EXCEPT ![p] =
          CASE o = "gone" -> [@ EXCEPT !.pc = "i_delnew"]
            [] o = "httperr" -> OnRaise(p, @, "HTTPError")
            [] OTHER ->
                 IF SkipsTokenising(RecentlyUpdated(@.call.isNew),
                                    @.call.classified)
                 THEN [@ EXCEPT !.pc = "u_post"]
                 ELSE [@ EXCEPT !.pc = "i_tok"]]
    /\ UNCHANGED <<storeVars, deleted_users, cls, cls2, nops, apiVars, loopVars>>
    /\ UNCHANGED avatarVars

\* _inspect_user: DELETE FROM "new_user" WHERE user_id = u
IDelNew(p) ==
    /\ proc[p].pc = "i_delnew"
    /\ new_user' = new_user \ {proc[p].call.u}
    /\ proc' = [proc EXCEPT ![p].pc = "i_deluser"]
    /\ UNCHANGED <<user, user_group, deferred_user, glob, user_stat,
                   user_detail, deleted_users, cls, cls2, nops, trait, user_trait,
                   apiVars, loopVars>>
    /\ UNCHANGED avatarVars

\* _inspect_user: DELETE FROM "user" WHERE user_id = u CASCADE, the id is
\* remembered and InvalidUser raised.
IDelUser(p) ==
    /\ proc[p].pc = "i_deluser"
    /\ LET u == proc[p].call.u
       IN /\ user' = user \ {u}
          /\ user_group' = CascadeGroups(user_group, u)
          /\ deferred_user' = DeferDelete(deferred_user, u)
          /\ user_stat' = [user_stat EXCEPT ![u] = [i \in Items |-> NoCount]]
          /\ user_detail' = user_detail \ {u}
          /\ user_trait' = user_trait \ {u}
          /\ deleted_users' = DeletedAdd(deleted_users, u)
          /\ proc' = [proc EXCEPT ![p] = OnRaise(p, @, "InvalidUser")]
    /\ UNCHANGED <<new_user, glob, cls, cls2, nops, trait,
                   apiVars, loopVars>>
    /\ UNCHANGED avatarVars

\* _inspect_user: the profile fields are scanned and tallied, and the
\* links, projects and pages fetched and tallied.  A failed links request
\* is raised; failed projects and pages requests are logged only.
ITok(p) ==
    /\ proc[p].pc = "i_tok"
    /\ \/ proc' = [proc EXCEPT ![p] = OnRaise(p, @, "HTTPError")]
       \/ \E pf \in Profiles :
             proc' = [proc EXCEPT ![p].pc = "i_glob",
                                  ![p].call.freq = pf.freq,
                                  ![p].call.match = pf.match]
    /\ UNCHANGED <<storeVars, deleted_users, cls, cls2, nops, apiVars, loopVars>>
    /\ UNCHANGED avatarVars

\* INSERT ... (..., 0, 0) ON CONFLICT DO UPDATE: the rows of the items
\* tallied start afresh.
InsertGlobals_replace(g, freq) ==
    [i \in Items |-> IF freq[i] > 0
                     THEN [score |-> 0, count |-> 0] ELSE g[i]]

\* INSERT INTO "hostname" / "word" / "word_adjacent" (..., 0, 0) ON
\* CONFLICT DO NOTHING for the items tallied.
InsertGlobals(g, freq) ==
    [i \in Items |-> IF freq[i] > 0 /\ ~HasRow(g, i)
                     THEN [score |-> 0, count |-> 0] ELSE g[i]]

\* _inspect_user: the global rows of the items tallied are created where
\* missing and fetched; their quotients are appended to the score list.
IGlob(p) ==
    /\ proc[p].pc = "i_glob"
    /\ glob' = InsertGlobals(glob, proc[p].call.freq)
    /\ proc' = [proc EXCEPT
          ![p].pc = "i_user",
          ![p].call.score = ScoreList(glob', proc[p].call.freq)]
    /\ UNCHANGED <<user, user_group, new_user, deferred_user, user_stat,
                   user_detail, deleted_users, cls, cls2, nops, trait, user_trait,
                   apiVars, loopVars>>
    /\ UNCHANGED avatarVars

\* INSERT INTO "user_word" / "user_hostname" / "user_word_adjacent" ... ON
\* CONFLICT DO UPDATE SET count = the tally, for the items tallied.
UpsertCounts(us, freq) ==
    [i \in Items |-> IF freq[i] > 0 THEN freq[i] ELSE us[i]]

\* _inspect_user: the per-user counters are written.  The rows refer to
\* the User row.
IUser(p) ==
    /\ proc[p].pc = "i_user"
    /\ LET u == proc[p].call.u
           f == proc[p].call.freq
       IN IF u \notin user /\ f # NoFreq
          THEN /\ proc' = [proc EXCEPT ![p] = OnRaise(p, @, "StoreError")]
               /\ user_stat' = user_stat
          ELSE /\ user_stat' = [user_stat EXCEPT ![u] = UpsertCounts(@, f)]
               /\ proc' = [proc EXCEPT ![p].pc = "i_traits"]
    /\ UNCHANGED <<user, user_group, new_user, deferred_user, glob,
                   user_detail, deleted_users, cls, cls2, nops, trait, user_trait,
                   apiVars, loopVars>>
    /\ UNCHANGED avatarVars

\* Trait.assess: SpammyNameTrait._assess returns an instance of count 1 for
\* a user whose screen_name matches.
assess(u) == IF u \in SpammyNames THEN 1 ELSE 0

\* BaseUserTraitInstance.weighted_score, the weight being 1.0
weighted_score(t) == IF t.count = 0 THEN <<0, 1>> ELSE <<t.score, t.count>>

\* UserSingletonTraitInstance.persist: INSERT INTO "user_trait" ... ON
\* CONFLICT DO UPDATE; the row refers to the User row, and nobody waits
\* for the coroutine, so that a failure is lost.
persist(ut, u) == IF u \in user THEN ut \cup {u} ELSE ut

\* _inspect_user: the weighted score of each trait assessed is appended and
\* the trait persisted; the score is the sum of the ten lowest entries.
ITraits(p) ==
    /\ proc[p].pc = "i_traits"
    /\ LET u == proc[p].call.u
           sq == IF assess(u) > 0
                 THEN Append(proc[p].call.score, weighted_score(trait))
                 ELSE proc[p].call.score
       IN /\ user_trait' = IF assess(u) > 0 THEN persist(user_trait, u)
                           ELSE user_trait
          /\ proc' = [proc EXCEPT
                 ![p].pc = "i_defer",
                 ![p].call.score = <<>>,
                 ![p].call.belowHalf = ScoreBelowHalf(sq),
                 ![p].call.belowMinusHalf = ScoreBelowMinusHalf(sq),
                 ![p].call.strong = ScoreStrong(sq)]
    /\ UNCHANGED <<user, user_group, new_user, deferred_user, glob, user_stat,
                   user_detail, trait, deleted_users, cls, cls2, nops,
                   apiVars, loopVars>>
    /\ UNCHANGED avatarVars

\* _inspect_user: the user is deferred or taken off the deferred list, and
\* a score below -0.5 sets match.
IDefer(p, age) ==
    /\ proc[p].pc = "i_defer"
    /\ LET u == proc[p].call.u
       IN IF ShouldDefer(TRUE, proc[p].call.belowHalf, age)
          THEN IF u \notin user
               THEN /\ proc' = [proc EXCEPT ![p] = OnRaise(p, @, "StoreError")]
                    /\ deferred_user' = deferred_user
               ELSE /\ deferred_user' = DeferUpsert(deferred_user, u)
                    /\ proc' = [proc EXCEPT
                           ![p].pc = "i_detail",
                           ![p].call.age = age,
                           ![p].call.match = (@ \/ proc[p].call.belowMinusHalf)]
          ELSE /\ deferred_user' = DeferDelete(deferred_user, u)
               /\ proc' = [proc EXCEPT
                      ![p].pc = "i_detail",
                      ![p].call.age = age,
                      ![p].call.match = (@ \/ proc[p].call.belowMinusHalf)]
    /\ UNCHANGED <<user, user_group, new_user, glob, user_stat, user_detail,
                   deleted_users, cls, cls2, nops, trait, user_trait,
                   apiVars, loopVars>>
    /\ UNCHANGED avatarVars

\* _inspect_user: INSERT INTO "user_detail" ... ON CONFLICT DO UPDATE
IDetail(p) ==
    /\ proc[p].pc = "i_detail"
    /\ LET u == proc[p].call.u
       IN IF u \notin user
          THEN /\ proc' = [proc EXCEPT ![p] = OnRaise(p, @, "StoreError")]
               /\ user_detail' = user_detail
          ELSE /\ user_detail' = user_detail \cup {u}
               /\ proc' = [proc EXCEPT ![p].pc = "i_add",
                                       ![p].call.age = "none",
                                       ![p].call.strong = FALSE]
    /\ UNCHANGED <<user, user_group, new_user, deferred_user, glob,
                   user_stat, deleted_users, cls, cls2, nops, trait, user_trait,
                   apiVars, loopVars>>
    /\ UNCHANGED avatarVars

\* The auto group an inspection gives a user, and the one it takes away.
AutoGroupFor(match) == IF match THEN "auto_suspect" ELSE "auto_legit"
OtherAutoGroup(match) == IF match THEN "auto_legit" ELSE "auto_suspect"

\* _inspect_user: add_groups('auto_suspect') or add_groups('auto_legit')
\* for a user found without a verdict on entry.
IAdd(p) ==
    /\ proc[p].pc = "i_add"
    /\ LET u == proc[p].call.u
       IN IF u \notin user
          THEN /\ proc' = [proc EXCEPT ![p] = OnRaise(p, @, "StoreError")]
               /\ user_group' = user_group
          ELSE /\ user_group' =
                     add_groups(user_group, u, {AutoGroupFor(proc[p].call.match)})
               /\ proc' = [proc EXCEPT ![p].pc = "i_rm"]
    /\ UNCHANGED <<user, new_user, deferred_user, glob, user_stat,
                   user_detail, deleted_users, cls, cls2, nops, trait, user_trait,
                   apiVars, loopVars>>
    /\ UNCHANGED avatarVars

\* _inspect_user: rm_groups('auto_legit') or rm_groups('auto_suspect')
IRm(p) ==
    /\ proc[p].pc = "i_rm"
    /\ user_group' = rm_groups(user_group, proc[p].call.u,
                               {OtherAutoGroup(proc[p].call.match)})
    /\ proc' = [proc EXCEPT ![p].pc = "u_post"]
    /\ UNCHANGED <<user, new_user, deferred_user, glob, user_stat,
                   user_detail, deleted_users, cls, cls2, nops, trait, user_trait,
                   apiVars, loopVars>>
    /\ UNCHANGED avatarVars

\* update_user_from_data: user.last_update = now; commit; return
UPost(p) ==
    /\ proc[p].pc = "u_post"
    /\ proc' = [proc EXCEPT ![p] = AfterUser(p, @)]
    /\ UNCHANGED <<storeVars, deleted_users, cls, cls2, nops, apiVars, loopVars>>
    /\ UNCHANGED avatarVars

\* ------------------------------------------------------------------------
\* ClassifyHandler.post (src/hadsh/server.py)
\* ------------------------------------------------------------------------

\* The JSON strings a request can carry.
Verdicts == {"legit", "suspect", "other"}

\* had: the verdict the user has as the request arrives (for the
\* properties of verdicts that follow one another).
IdleCls == [pc |-> "idle", u |-> 0, v |-> "none", had |-> {}]

\* The executions of ClassifyHandler.post that can be under way at once.
Handlers == {1, 2}

\* The coroutine of execution h, and its next position.
Cls(h) == IF h = 1 THEN cls ELSE cls2

SetCls(h, c) ==
    IF h = 1 THEN cls' = c /\ UNCHANGED cls2
    ELSE cls2' = c /\ UNCHANGED cls

\* A moderator posts the string v for user u; the handler fetches the user.
VStart(h, u, v) ==
    /\ Cls(h).pc = "idle"
    /\ CanStart
    /\ nops' = nops + 1
    /\ SetCls(h, [pc |-> "v_del", u |-> u, v |-> v,
                  had |-> GroupsOf(user_group, u) \cap ManualGroups])
    /\ UNCHANGED <<storeVars, deleted_users, proc, apiVars, loopVars>>
    /\ UNCHANGED avatarVars

\* DELETE FROM "user_group_assoc" the groups legit, suspect and auto_%;
\* a string that is no verdict then ends the request with status 400.
VDel(h) ==
    /\ Cls(h).pc = "v_del"
    /\ user_group' = rm_groups(user_group, Cls(h).u, ManualGroups \cup AutoGroups)
    /\ SetCls(h, IF Cls(h).v \in ManualGroups
                  THEN [Cls(h) EXCEPT !.pc = "v_ins"] ELSE IdleCls)
    /\ UNCHANGED <<user, new_user, deferred_user, glob, user_stat,
                   user_detail, deleted_users, proc, nops, trait, user_trait,
                   apiVars, loopVars>>
    /\ UNCHANGED avatarVars

\* INSERT INTO user_group_assoc the group of the verdict; the row refers
\* to the User row.
VIns(h) ==
    /\ Cls(h).pc = "v_ins"
    /\ IF Cls(h).u \notin user
       THEN /\ SetCls(h, IdleCls)
            /\ user_group' = user_group
       ELSE /\ user_group' = add_groups(user_group, Cls(h).u, {Cls(h).v})
            /\ SetCls(h, [Cls(h) EXCEPT !.pc = "v_host"])
    /\ UNCHANGED <<user, new_user, deferred_user, glob, user_stat,
                   user_detail, deleted_users, proc, nops, trait, user_trait,
                   apiVars, loopVars>>
    /\ UNCHANGED avatarVars

\* score_inc
ScoreInc(v) == IF v = "legit" THEN 1 ELSE -1

\* UPDATE hostname / word / word_adjacent SET score = score + count * inc,
\* count = count + count of the user's row, for the rows the user refers to.
CountUp(g, us, table, inc) ==
    [i \in Items |-> IF i \in table /\ HasRow(g, i) /\ us[i] > 0
                     THEN [score |-> g[i].score + us[i] * inc,
                           count |-> g[i].count + us[i]]
                     ELSE g[i]]

\* INSERT INTO word_adjacent SELECT ..., count * inc, count FROM
\* user_word_adjacent ... ON CONFLICT DO NOTHING
InsertAdjacent(g, us, inc) ==
    [i \in Items |-> IF i \in Pairs /\ ~HasRow(g, i) /\ us[i] > 0
                     THEN [score |-> us[i] * inc, count |-> us[i]]
                     ELSE g[i]]

\* One of the three UPDATEs of the corpus.
VCount(h, pc, table, next) ==
    /\ Cls(h).pc = pc
    /\ glob' = CountUp(glob, user_stat[Cls(h).u], table, ScoreInc(Cls(h).v))
    /\ SetCls(h, [Cls(h) EXCEPT !.pc = next])
    /\ UNCHANGED <<user, user_group, new_user, deferred_user, user_stat,
                   user_detail, deleted_users, proc, nops, trait, user_trait,
                   apiVars, loopVars>>
    /\ UNCHANGED avatarVars

VHost(h) == VCount(h, "v_host", Hostnames, "v_word")
VWord(h) == VCount(h, "v_word", Words, "v_adj")
VAdj(h) == VCount(h, "v_adj", Pairs, "v_adjins")

\* The INSERT of the word adjacencies that have no global row yet.
VAdjIns(h) ==
    /\ Cls(h).pc = "v_adjins"
    /\ glob' = InsertAdjacent(glob, user_stat[Cls(h).u], ScoreInc(Cls(h).v))
    /\ SetCls(h, [Cls(h) EXCEPT !.pc = "v_traits"])
    /\ UNCHANGED <<user, user_group, new_user, deferred_user, user_stat,
                   user_detail, deleted_users, proc, nops, trait, user_trait,
                   apiVars, loopVars>>
    /\ UNCHANGED avatarVars

\* SingletonTrait.increment
increment(t, count, direction) ==
    IF count = 0 THEN t
    ELSE [score |-> t.score + count * direction, count |-> t.count + count]

\* UserSingletonTraitInstance.discard: DELETE FROM "user_trait" WHERE
\* user_id = u AND trait_id = the trait
discard(ut, u) == ut \ {u}

\* for trait in (yield Trait.assess(user, log)):
\*     trait.increment_trait(score_inc); trait.discard()
VTraits(h) ==
    /\ Cls(h).pc = "v_traits"
    /\ IF assess(Cls(h).u) > 0
       THEN /\ trait' = increment(trait, assess(Cls(h).u), ScoreInc(Cls(h).v))
            /\ user_trait' = discard(user_trait, Cls(h).u)
       ELSE UNCHANGED <<trait, user_trait>>
    /\ SetCls(h, [Cls(h) EXCEPT !.pc = "v_drop"])
    /\ UNCHANGED <<user, user_group, new_user, deferred_user, glob, user_stat,
                   user_detail, deleted_users, proc, nops, apiVars, loopVars>>
    /\ UNCHANGED avatarVars

\* keep_detail is False for legit: the detail, the per-user counters and
\* the per-user trait rows are deleted.
VDrop(h) ==
    /\ Cls(h).pc = "v_drop"
    /\ IF Cls(h).v = "legit"
       THEN /\ user_detail' = user_detail \ {Cls(h).u}
            /\ user_stat' = [user_stat EXCEPT ![Cls(h).u] = [i \in Items |-> NoCount]]
            /\ user_trait' = user_trait \ {Cls(h).u}
       ELSE UNCHANGED <<user_detail, user_stat, user_trait>>
    /\ SetCls(h, [Cls(h) EXCEPT !.pc = "v_undefer"])
    /\ UNCHANGED <<user, user_group, new_user, deferred_user, glob,
                   deleted_users, proc, nops, trait,
                   apiVars, loopVars>>
    /\ UNCHANGED avatarVars

\* DELETE FROM deferred_user WHERE user_id = u; the groups are read back
\* and the request answered.
VUndefer(h) ==
    /\ Cls(h).pc = "v_undefer"
    /\ deferred_user' = DeferDelete(deferred_user, Cls(h).u)
    /\ SetCls(h, IdleCls)
    /\ UNCHANGED <<user, user_group, new_user, glob, user_stat, user_detail,
                   deleted_users, proc, nops, trait, user_trait,
                   apiVars, loopVars>>
    /\ UNCHANGED avatarVars

\* ------------------------------------------------------------------------
\* The drivers of the background loops (src/hadsh/crawler/crawler.py)
\* ------------------------------------------------------------------------

\* _background_fetch_new_users, _background_fetch_hist_users,
\* _background_inspect_deferred, _background_inspect_new
DiscoveryLoops == {"fetch_new_users", "fetch_hist_users"}
DrainLoops == {"inspect_deferred", "inspect_new"}
BackgroundLoops == DiscoveryLoops \cup DrainLoops

\* The interval a tick of loop l waits for when nothing else is decided.
Interval(l) ==
    CASE l = "fetch_new_users"  -> "new_user_fetch_interval"
      [] l = "fetch_hist_users" -> "old_user_fetch_interval"
      [] l = "inspect_deferred" -> "deferred_check_interval"
      [] l = "inspect_new"      -> "new_check_interval"

\* self._refresh_hist_page = None
NoPage == 0

\* Some page number, where the run does not follow which.
SetPage == 1

\* Crawler.__init__: one add_timeout(init_delay) for each loop.
LoopInit ==
    /\ lpc = [l \in BackgroundLoops |-> "waiting"]
    /\ pending = [l \in BackgroundLoops |-> 1]
    /\ ldelay = [l \in BackgroundLoops |-> "init_delay"]
    /\ refresh_hist_page = NoPage
    /\ began_forbidden = [l \in BackgroundLoops |-> FALSE]
    /\ touched = [l \in BackgroundLoops |-> {}]

\* self._io_loop.add_timeout(time() + delay, <the loop itself>), the last
\* statement of a tick.
Reschedule(l, delay) ==
    /\ lpc' = [lpc EXCEPT ![l] = "waiting"]
    /\ pending' = [pending EXCEPT ![l] = @ + 1]
    /\ ldelay' = [ldelay EXCEPT ![l] = delay]
    /\ touched' = [touched EXCEPT ![l] = {}]

\* An exception leaves the coroutine: nothing is scheduled.
Escape(l) ==
    /\ lpc' = [lpc EXCEPT ![l] = "waiting"]
    /\ touched' = [touched EXCEPT ![l] = {}]
    /\ UNCHANGED <<pending, ldelay>>

\* The IOLoop can start one more tick.
CanStartTick == Cardinality({l \in BackgroundLoops : lpc[l] # "waiting"}) < MaxActive

\* The tick of l goes on to position pc having done the things in did.
GoOn(l, pc, did) ==
    /\ lpc' = [lpc EXCEPT ![l] = pc]
    /\ touched' = [touched EXCEPT ![l] = @ \cup did]
    /\ UNCHANGED <<pending, ldelay>>

\* A drain tick works regardless of is_forbidden.
DrainWorks_always(forbidden) == TRUE

\* if not self._api.is_forbidden:
DrainWorks(forbidden) == ~forbidden

\* A timeout of a drain loop fires.  A forbidden API sends the tick
\* straight to add_timeout(api_blocked_delay); otherwise the tick goes on
\* to its SELECT with delay = the loop's interval.
DrainStart(l) ==
    /\ l \in DrainLoops
    /\ lpc[l] = "waiting" /\ pending[l] > 0
    /\ CanStartTick
    /\ began_forbidden' = [began_forbidden EXCEPT ![l] = is_forbidden]
    /\ IF DrainWorks(is_forbidden)
       THEN /\ lpc' = [lpc EXCEPT ![l] = "select"]
            /\ pending' = [pending EXCEPT ![l] = @ - 1]
            /\ UNCHANGED ldelay
       ELSE /\ lpc' = lpc
            /\ pending' = pending
            /\ ldelay' = [ldelay EXCEPT ![l] = "api_blocked_delay"]
    /\ UNCHANGED <<touched, refresh_hist_page, apiVars, pageVars, storeVars,
                   crawlVars>>
    /\ UNCHANGED avatarVars

\* The SELECT of the batch: it fails (the except clause logs), or finds no
\* id, or finds ids.  With no id the deferred tick is over; the new-user
\* tick still runs its clean-up.
DrainSelect(l, r) ==
    /\ l \in DrainLoops /\ lpc[l] = "select"
    /\ CASE r = "ids" -> GoOn(l, "get_users", {})
         [] r = "empty" /\ l = "inspect_new" -> GoOn(l, "clean", {})
         [] OTHER -> Reschedule(l, Interval(l))
    /\ UNCHANGED <<refresh_hist_page, began_forbidden, apiVars, pageVars, storeVars,
                   crawlVars>>
    /\ UNCHANGED avatarVars

\* _forbidden_expiry after a request of a tick: through _api_call when
\* direct is false, through api_fetch itself when it is true.
ForbiddenAfterRequest(direct, o) ==
    IF o = "ok" /\ ~direct THEN -1 ELSE ForbiddenAfter(o, now)

\* get_users(ids=ids): a failure is logged by the except clause; a list
\* goes on to the users; anything else is marked (deferred tick) or leads
\* to the clean-up (new-user tick).
DrainGetUsers(l, o, isList) ==
    /\ l \in DrainLoops /\ lpc[l] = "get_users"
    /\ forbidden_expiry' = ForbiddenAfterRequest(FALSE, o)
    /\ CASE o # "ok" -> Reschedule(l, Interval(l))
         [] isList -> GoOn(l, "users", {"request"})
         [] OTHER ->
              GoOn(l, IF l = "inspect_new" THEN "clean" ELSE "mark",
                   {"request"})
    /\ UNCHANGED <<now, rq_sem, last_rq, cpc, in_flight, raw, last_end,
                   last_end_ok, last_out, start_gap>>
    /\ UNCHANGED <<refresh_hist_page, began_forbidden, pageVars, storeVars, crawlVars>>
    /\ UNCHANGED avatarVars

\* update_user_from_data for one user of the batch, with the HEAD of its
\* profile ending in o: it returns (more users may follow), or raises.
\* The deferred tick takes InvalidUser (gone) and calls again; every other
\* exception ends the work of the tick in the except clause.
DrainUser(l, o, gone, more) ==
    /\ l \in DrainLoops /\ lpc[l] = "users"
    /\ forbidden_expiry' = ForbiddenAfterRequest(TRUE, o)
    /\ CASE o = "ok" /\ more -> GoOn(l, "users", {"request", "store"})
         [] o = "ok" /\ ~more /\ l = "inspect_new" ->
              GoOn(l, "clean", {"request", "store"})
         [] o = "httperr" /\ gone /\ l = "inspect_deferred" ->
              GoOn(l, "users", {"request", "store"})
         [] OTHER -> Reschedule(l, Interval(l))
    /\ UNCHANGED <<now, rq_sem, last_rq, cpc, in_flight, raw, last_end,
                   last_end_ok, last_out, start_gap>>
    /\ UNCHANGED <<refresh_hist_page, began_forbidden, pageVars, storeVars, crawlVars>>
    /\ UNCHANGED avatarVars

\* The UPDATE that marks the batch (deferred tick) or the DELETE that
\* cleans the inbox (new-user tick); it works or its error is logged.
DrainWrite(l) ==
    /\ l \in DrainLoops /\ lpc[l] \in {"mark", "clean"}
    /\ Reschedule(l, Interval(l))
    /\ UNCHANGED <<refresh_hist_page, began_forbidden, apiVars, pageVars, storeVars,
                   crawlVars>>
    /\ UNCHANGED avatarVars

\* A timeout of a discovery loop fires.  The first ticks find
\* self._refresh_hist_page None and ask the store for it.
DiscoveryStart(l) ==
    /\ l \in DiscoveryLoops
    /\ lpc[l] = "waiting" /\ pending[l] > 0
    /\ CanStartTick
    /\ pending' = [pending EXCEPT ![l] = @ - 1]
    /\ lpc' = [lpc EXCEPT ![l] =
                  IF refresh_hist_page = NoPage THEN "page" ELSE "body"]
    /\ UNCHANGED <<ldelay, refresh_hist_page, began_forbidden, touched,
                   apiVars, pageVars, storeVars, crawlVars>>
    /\ UNCHANGED avatarVars

\* self._refresh_hist_page = yield self._fetch_last_refresh_page(), ahead
\* of the try statement: max(page_num) of the table, NULL for an empty
\* table, or an error of the store that no except clause of the tick sees.
DiscoveryPage(l, r) ==
    /\ l \in DiscoveryLoops /\ lpc[l] = "page"
    /\ CASE r = "StoreError" ->
              /\ Escape(l)
              /\ UNCHANGED refresh_hist_page
         [] OTHER ->
              /\ GoOn(l, "body", {})
              /\ refresh_hist_page' = IF r = "page" THEN SetPage ELSE NoPage
    /\ UNCHANGED <<began_forbidden, apiVars, pageVars, storeVars, crawlVars>>
    /\ UNCHANGED avatarVars

\* The try statement of a discovery tick around fetch_new_user_ids, whose
\* listing request ends in o.  A page number comes back (the newest scan
\* may go for another page), or NoUsersReturned, or any other exception:
\* each except clause falls through to add_timeout.
DiscoveryBody(l, o, r, again) ==
    /\ l \in DiscoveryLoops /\ lpc[l] = "body"
    /\ forbidden_expiry' = ForbiddenAfterRequest(TRUE, o)
    /\ refresh_hist_page' =
          IF l = "fetch_hist_users" /\ o = "ok" /\ r = "page"
          THEN SetPage ELSE refresh_hist_page
    /\ CASE l = "fetch_new_users" /\ o = "ok" /\ r = "page" /\ again ->
              GoOn(l, "body", {"request"})
         [] l = "fetch_hist_users" /\ o = "ok" /\ r = "NoUsersReturned" ->
              Reschedule(l, "old_user_fetch_interval_lastpage")
         [] OTHER -> Reschedule(l, Interval(l))
    /\ UNCHANGED <<now, rq_sem, last_rq, cpc, in_flight, raw, last_end,
                   last_end_ok, last_out, start_gap>>
    /\ UNCHANGED <<began_forbidden, pageVars, storeVars, crawlVars>>
    /\ UNCHANGED avatarVars

\* ------------------------------------------------------------------------
\* Crawler.fetch_new_user_ids (src/hadsh/crawler/crawler.py): the pages of
\* the newest-users listing
\* ------------------------------------------------------------------------

\* The listing has MaxPage pages with users; page MaxPage + 1 is empty.
Pages == 1..MaxPage
AllPages == 1..(MaxPage + 1)

\* A page that has no row in "newest_user_page_refresh".
NoRefresh == -1

\* fetch_new_user_ids is not running; result is how its latest call
\* ended.
FnuIdle ==
    [pc |-> "idle", page |-> 1, pages |-> 0, now |-> 0,
     last_refresh |-> "None", found |-> 0, ids |-> {}, caller |-> "none",
     result |-> "none"]

\* The table is empty at first and the clock is past thirty days.
PageInit ==
    /\ page_refresh = [p \in AllPages |-> NoRefresh]
    /\ utcnow = FirstDay
    /\ fnu = FnuIdle

\* The clock of datetime.now advances.
PageTick ==
    /\ utcnow < MaxDay
    /\ utcnow' = utcnow + 1
    /\ UNCHANGED <<page_refresh, fnu, lpc, pending, ldelay,
                   refresh_hist_page, began_forbidden, touched, apiVars,
                   storeVars, crawlVars>>
    /\ UNCHANGED avatarVars

\* The delay of the historical loop is old_user_fetch_interval whatever
\* the call ended in.
HistDelay_same(result) == "old_user_fetch_interval"

\* delay = old_user_fetch_interval; except NoUsersReturned: delay =
\* old_user_fetch_interval_lastpage
HistDelay(result) ==
    IF result = "NoUsersReturned" THEN "old_user_fetch_interval_lastpage"
    ELSE "old_user_fetch_interval"

\* fetch_new_user_ids is left, by raise Return(page) or by an exception.
\* No yield separates this from what _background_fetch_hist_users does
\* with it: self._refresh_hist_page is assigned the page returned (an
\* exception skips the assignment) and add_timeout gets the delay.
FnuReturn(result, page) ==
    /\ fnu' = [FnuIdle EXCEPT !.result = result]
    /\ IF fnu.caller = "hist"
       THEN /\ refresh_hist_page' =
                  IF result = "page" THEN page ELSE refresh_hist_page
            /\ ldelay' = [ldelay EXCEPT
                  !["fetch_hist_users"] = HistDelay(result)]
       ELSE UNCHANGED <<refresh_hist_page, ldelay>>

\* fetch_new_user_ids goes on to position pc.
FnuGoOn(next) ==
    /\ fnu' = next
    /\ UNCHANGED <<refresh_hist_page, ldelay>>

\* fetch_new_user_ids(page), called by the newest-users loop or by a
\* request: last_refresh = None, pages = 0 and now is read once, ahead of
\* the while loop.
FnuStart(page) ==
    /\ fnu.pc = "idle"
    /\ fnu' = [FnuIdle EXCEPT !.pc = "check", !.page = page,
                              !.now = utcnow, !.caller = "new"]
    /\ UNCHANGED <<page_refresh, utcnow, lpc, pending, ldelay,
                   refresh_hist_page, began_forbidden, touched, apiVars,
                   storeVars, crawlVars>>
    /\ UNCHANGED avatarVars

\* SELECT max(page_num) FROM "newest_user_page_refresh"
fetch_last_refresh_page(table) ==
    IF \A q \in AllPages : table[q] = NoRefresh THEN NoPage
    ELSE CHOOSE q \in AllPages :
            /\ table[q] # NoRefresh
            /\ \A r \in AllPages : table[r] # NoRefresh => r <= q

\* _background_fetch_hist_users: if self._refresh_hist_page is None it is
\* read from the table.  It stays None for an empty table, and then
\* `page > 1` of fetch_new_user_ids(page=None) raises TypeError, which
\* the bare except clause of the tick logs.
HistPage ==
    /\ fnu.pc = "idle"
    /\ refresh_hist_page = NoPage
    /\ refresh_hist_page' = fetch_last_refresh_page(page_refresh)
    /\ IF refresh_hist_page' = NoPage
       THEN /\ fnu' = [FnuIdle EXCEPT !.result = "error"]
            /\ ldelay' = [ldelay EXCEPT
                  !["fetch_hist_users"] = HistDelay("error")]
       ELSE UNCHANGED <<fnu, ldelay>>
    /\ UNCHANGED <<page_refresh, utcnow, lpc, pending, began_forbidden,
                   touched, apiVars, storeVars, crawlVars>>
    /\ UNCHANGED avatarVars

\* _background_fetch_hist_users calls fetch_new_user_ids(page =
\* self._refresh_hist_page).
HistCall ==
    /\ fnu.pc = "idle"
    /\ refresh_hist_page # NoPage
    /\ fnu' = [FnuIdle EXCEPT !.pc = "check", !.page = refresh_hist_page,
                              !.now = utcnow, !.caller = "hist"]
    /\ UNCHANGED <<page_refresh, utcnow, lpc, pending, ldelay,
                   refresh_hist_page, began_forbidden, touched, apiVars,
                   storeVars, crawlVars>>
    /\ UNCHANGED avatarVars

\* (now - last_refresh.refresh_date).total_seconds() < 2592000.0
RefreshedLately(table, page, t) == t - table[page] < THIRTY_DAYS

\* The head of the while loop.  num_uids is never added to, so the loop
\* runs while pages < 10.  For a page after the first the rows of the page
\* are fetched: last_refresh becomes that list, or the row when there is
\* exactly one, and a row younger than thirty days skips the page.
FnuCheck ==
    /\ fnu.pc = "check"
    /\ CASE ~(fnu.pages < MAX_PAGES) -> FnuReturn("page", fnu.page)
         [] fnu.pages < MAX_PAGES /\ fnu.page = 1 ->
              FnuGoOn([fnu EXCEPT !.pc = "request"])
         [] fnu.pages < MAX_PAGES /\ fnu.page > 1
               /\ page_refresh[fnu.page] = NoRefresh ->
              FnuGoOn([fnu EXCEPT !.pc = "request",
                                  !.last_refresh = "list"])
         [] fnu.pages < MAX_PAGES /\ fnu.page > 1
               /\ page_refresh[fnu.page] # NoRefresh ->
              IF RefreshedLately(page_refresh, fnu.page, fnu.now)
              THEN FnuGoOn([fnu EXCEPT !.page = @ + 1,
                                       !.last_refresh = "row"])
              ELSE FnuGoOn([fnu EXCEPT !.pc = "request",
                                       !.last_refresh = "row"])
    /\ UNCHANGED <<page_refresh, utcnow, lpc, pending, began_forbidden,
                   touched, apiVars, storeVars, crawlVars>>
    /\ UNCHANGED avatarVars

\* ids = yield self._api.get_user_ids(sortby=newest, page=page), the
\* request ending in o.  An exception leaves the function, and so does
\* NoUsersReturned for an empty answer.
FnuGetUserIds(o, some) ==
    /\ fnu.pc = "request"
    /\ fnu.page > MaxPage => ~some
    /\ forbidden_expiry' = ForbiddenAfterRequest(TRUE, o)
    /\ CASE o = "ok" /\ some -> FnuGoOn([fnu EXCEPT !.pc = "stamp"])
         [] o = "ok" /\ ~some -> FnuReturn("NoUsersReturned", fnu.page)
         [] OTHER -> FnuReturn("error", fnu.page)
    /\ UNCHANGED <<now, rq_sem, last_rq, cpc, in_flight, raw, last_end,
                   last_end_ok, last_out, start_gap>>
    /\ UNCHANGED <<page_refresh, utcnow, lpc, pending, began_forbidden,
                   touched, storeVars, crawlVars>>
    /\ UNCHANGED avatarVars

\* if page > 1: a last_refresh of None gets a new row, anything else has
\* its refresh_date set and committed.  The list that fetch returned for
\* a page without a row is not None and has no refresh_date: the
\* assignment raises and the function is left.
FnuStamp ==
    /\ fnu.pc = "stamp"
    /\ CASE fnu.page = 1 ->
              /\ FnuGoOn([fnu EXCEPT !.pc = "store"])
              /\ UNCHANGED page_refresh
         [] fnu.page > 1 /\ fnu.last_refresh \in {"None", "row"} ->
              /\ FnuGoOn([fnu EXCEPT !.pc = "store",
                                     !.last_refresh = "row"])
              /\ page_refresh' = [page_refresh EXCEPT ![fnu.page] = fnu.now]
         [] fnu.page > 1 /\ fnu.last_refresh = "list" ->
              /\ FnuReturn("error", fnu.page)
              /\ UNCHANGED page_refresh
    /\ UNCHANGED <<utcnow, lpc, pending, began_forbidden, touched, apiVars,
                   storeVars, crawlVars>>
    /\ UNCHANGED avatarVars

\* SELECT user_id FROM "users" WHERE user_id IN ids: the ids of the page
\* that have a User row are dropped from the list.
FnuFilter(ids) ==
    /\ fnu.pc = "store"
    /\ ids # {}
    /\ fnu' = [fnu EXCEPT !.pc = "insert", !.ids = ids \ user]
    /\ UNCHANGED <<page_refresh, utcnow, lpc, pending, ldelay,
                   refresh_hist_page, began_forbidden, touched, apiVars,
                   storeVars, crawlVars>>
    /\ UNCHANGED avatarVars

\* INSERT INTO "new_user" ... ON CONFLICT DO NOTHING of the ids that are
\* left; page and pages advance; a page without any such id ends the
\* loop.  The code keeps no count of these ids (num_uids stays 0): found
\* is history.
FnuStore ==
    /\ fnu.pc = "insert"
    /\ new_user' = new_user \cup fnu.ids
    /\ IF fnu.ids = {} THEN FnuReturn("page", fnu.page + 1)
       ELSE FnuGoOn([fnu EXCEPT !.pc = "check", !.page = @ + 1,
                                !.pages = @ + 1,
                                !.found = @ + Cardinality(fnu.ids),
                                !.ids = {}])
    /\ UNCHANGED <<user, user_group, deferred_user, glob, user_stat,
                   user_detail, trait, user_trait, page_refresh, utcnow, lpc,
                   pending, began_forbidden, touched, apiVars, crawlVars>>
    /\ UNCHANGED avatarVars

LoopNext ==
    \/ \E l \in DrainLoops : DrainStart(l)
    \/ \E l \in DrainLoops, r \in {"ids", "empty", "StoreError"} :
          DrainSelect(l, r)
    \/ \E l \in DrainLoops, o \in Outcomes, isList \in BOOLEAN :
          DrainGetUsers(l, o, isList)
    \/ \E l \in DrainLoops, o \in Outcomes, gone, more \in BOOLEAN :
          DrainUser(l, o, gone, more)
    \/ \E l \in DrainLoops : DrainWrite(l)
    \/ \E l \in DiscoveryLoops : DiscoveryStart(l)
    \/ \E l \in DiscoveryLoops, r \in {"page", "NULL", "StoreError"} :
          DiscoveryPage(l, r)
    \/ \E l \in DiscoveryLoops, o \in Outcomes,
          r \in {"page", "NoUsersReturned", "error"}, again \in BOOLEAN :
          DiscoveryBody(l, o, r, again)
    \/ Tick

\* ------------------------------------------------------------------------
\* Avatars: Crawler.get_avatar, Crawler.fetch_avatar, and the two callers
\* that hold an Avatar object, AvatarHandler.get and
\* Crawler.get_avatar_hash
\* ------------------------------------------------------------------------

\* The coroutines that ask for an avatar, the urls, and what the platform
\* may serve as the body of an image.
NumAvCallers == 2
NumUrls == 2
AvCallers == 1..NumAvCallers
Urls == 1..NumUrls
Bodies == {"b1", "b2"}

\* The bodies of one url that the runs follow.
MaxDownloads == 2

\* A row without its body: `content_type` empty.
NoType == ""

AvIdle == [pc |-> "idle", url |-> 0, avatar_type |-> NoType, avatar |-> NoType]

AvatarInit ==
    /\ avatar = {}
    /\ av = [c \in AvCallers |-> AvIdle]
    /\ downloads = [u \in Urls |-> 0]

\* The rows of a url.
AvatarRows(table, url) == {r \in table : r.url = url}

\* INSERT INTO "avatar" (url) VALUES (url) ON CONFLICT DO NOTHING, the
\* column url being unique.
InsertAvatar(table, url) ==
    IF AvatarRows(table, url) # {} THEN table
    ELSE table \cup {[url |-> url, avatar_type |-> NoType, avatar |-> NoType]}

\* get_avatar(url): the INSERT.
AvInsert(c, url) ==
    /\ av[c].pc = "idle"
    /\ avatar' = InsertAvatar(avatar, url)
    /\ av' = [av EXCEPT ![c] = [AvIdle EXCEPT !.pc = "inserted", !.url = url]]
    /\ UNCHANGED <<downloads, apiVars, storeVars, crawlVars, loopVars>>

\* get_avatar(url): Avatar.fetch(url = ... LIMIT 1) and Return(avatars[0]).
AvReturn(c) ==
    /\ av[c].pc = "inserted"
    /\ av' = [av EXCEPT ![c] = AvIdle]
    /\ UNCHANGED <<avatar, downloads, apiVars, storeVars, crawlVars, loopVars>>

\* `if not avatar.avatar_type:` of AvatarHandler.get, of get_avatar_hash and
\* of fetch_avatar, all on the Avatar object the caller fetched.
NeedsBody(avatar_type) == avatar_type = NoType

\* AvatarHandler.get and get_avatar_hash: Avatar.fetch(avatar_id = ...) of
\* a row that exists.  The object keeps what the row had; with a body on
\* file nothing is requested, otherwise fetch_avatar(avatar) calls
\* api_fetch(avatar.url).
AvLoad(c, url) ==
    /\ av[c].pc = "idle"
    /\ \E r \in AvatarRows(avatar, url) :
          av' = [av EXCEPT ![c] =
                    IF NeedsBody(r.avatar_type)
                    THEN [pc |-> "request", url |-> url,
                          avatar_type |-> r.avatar_type, avatar |-> r.avatar]
                    ELSE AvIdle]
    /\ UNCHANGED <<avatar, downloads, apiVars, storeVars, crawlVars, loopVars>>

\* fetch_avatar: avatar_res = yield self._api.api_fetch(avatar.url), the
\* request ending in o with body b; avatar_type and avatar are set on the
\* object.  An exception leaves fetch_avatar and its caller.
AvDownload(c, o, b) ==
    /\ av[c].pc = "request"
    /\ downloads[av[c].url] < MaxDownloads
    /\ forbidden_expiry' = ForbiddenAfterRequest(TRUE, o)
    /\ downloads' = [downloads EXCEPT ![av[c].url] =
                        IF o = "ok" THEN @ + 1 ELSE @]
    /\ av' = [av EXCEPT ![c] =
                 IF o = "ok"
                 THEN [@ EXCEPT !.pc = "commit", !.avatar_type = "image",
                                !.avatar = b]
                 ELSE AvIdle]
    /\ UNCHANGED <<now, rq_sem, last_rq, cpc, in_flight, raw, last_end,
                   last_end_ok, last_out, start_gap>>
    /\ UNCHANGED <<avatar, storeVars, crawlVars, loopVars>>

\* fetch_avatar: yield avatar.commit(), the UPDATE of the row by its key.
AvCommit(c) ==
    /\ av[c].pc = "commit"
    /\ avatar' = {IF r.url = av[c].url
                  THEN [r EXCEPT !.avatar_type = av[c].avatar_type,
                                 !.avatar = av[c].avatar]
                  ELSE r : r \in avatar}
    /\ av' = [av EXCEPT ![c] = AvIdle]
    /\ UNCHANGED <<downloads, apiVars, storeVars, crawlVars, loopVars>>

AvatarNext ==
    \/ \E c \in AvCallers, url \in Urls : AvInsert(c, url)
    \/ \E c \in AvCallers : AvReturn(c)
    \/ \E c \in AvCallers, url \in Urls : AvLoad(c, url)
    \/ \E c \in AvCallers, o \in Outcomes, b \in Bodies : AvDownload(c, o, b)
    \/ \E c \in AvCallers : AvCommit(c)
    \/ Tick

Init ==
    ApiInit /\ StoreInit /\ CrawlInit /\ LoopInit /\ PageInit /\ AvatarInit

Next ==
    \/ \E ids \in SUBSET Users : FetchNewUserIds(ids)
    \/ NewSelect
    \/ DefSelect
    \/ \E p \in Loops : GetUsers(p)
    \/ DefMark
    \/ NewClean
    \/ \E u \in Users : FeStart(u)
    \/ \E p \in Procs : UFetch(p)
    \/ \E p \in Procs : UInsert(p)
    \/ \E p \in Procs : UUpdate(p)
    \/ \E p \in Procs : IEnter(p)
    \/ \E p \in Procs, o \in HeadOutcomes : IHead(p, o)
    \/ \E p \in Procs : IDelNew(p)
    \/ \E p \in Procs : IDelUser(p)
    \/ \E p \in Procs : ITok(p)
    \/ \E p \in Procs : IGlob(p)
    \/ \E p \in Procs : IUser(p)
    \/ \E p \in Procs : ITraits(p)
    \/ \E p \in Procs, age \in Ages : IDefer(p, age)
    \/ \E p \in Procs : IDetail(p)
    \/ \E p \in Procs : IAdd(p)
    \/ \E p \in Procs : IRm(p)
    \/ \E p \in Procs : UPost(p)
    \/ \E u \in Users, v \in Verdicts : VStart(1, u, v)
    \/ VDel(1)
    \/ VIns(1)
    \/ VHost(1)
    \/ VWord(1)
    \/ VAdj(1)
    \/ VAdjIns(1)
    \/ VTraits(1)
    \/ VDrop(1)
    \/ VUndefer(1)

Spec == Init /\ [][Next]_vars

ApiNext ==
    \/ \E c \in Callers : ApiCall(c)
    \/ \E c \in Callers : ApiAcquire(c)
    \/ \E c \in Callers : ApiSend(c)
    \/ \E c \in Callers, o \in Outcomes : ApiComplete(c, o)
    \/ Tick

SpecApi == Init /\ [][ApiNext]_vars

\* An instant one unit earlier; -1 stands for no instant, and the instants
\* that are MaxTime or more ago are not told apart.
Earlier(t) == IF t <= 0 THEN t ELSE t - 1

\* The IOLoop clock advances at the end of its range: every instant kept
\* moves one unit back, which leaves the time between them as it is.
ClockShift ==
    /\ now = MaxTime
    /\ last_rq' = Earlier(last_rq)
    /\ forbidden_expiry' = Earlier(forbidden_expiry)
    /\ last_end' = Earlier(last_end)
    /\ last_rq' # last_rq \/ forbidden_expiry' # forbidden_expiry
          \/ last_end' # last_end
    /\ UNCHANGED <<now, rq_sem, cpc, in_flight, raw, last_end_ok, last_out,
                   start_gap>>
    /\ UNCHANGED <<storeVars, crawlVars, loopVars, avatarVars>>

\* The clock goes on for ever.
ApiFairNext ==
    \/ ApiNext
    \/ ClockShift

\* Time passes; a _ratelimit_sleep that is over goes on; every request
\* completes or times out (connect_timeout, request_timeout); and
\* Semaphore.release wakes the waiters in the order they came, so that no
\* waiter is passed over for ever.
ApiFairness ==
    /\ WF_vars(Tick \/ ClockShift)
    /\ \A c \in Callers :
          /\ WF_vars(ApiSend(c))
          /\ WF_vars(\E o \in Outcomes : ApiComplete(c, o))
          /\ SF_vars(ApiAcquire(c))

SpecApiFair == Init /\ [][ApiFairNext]_vars /\ ApiFairness

SpecLoops == Init /\ [][LoopNext]_vars

SpecAvatar == Init /\ [][AvatarNext]_vars

\* The database of an earlier run: pages 2..MaxPage may have a row.
PagesInit ==
    /\ ApiInit /\ CrawlInit /\ LoopInit /\ AvatarInit
    /\ user \in {{}, Users}
    /\ user_group = {}
    /\ new_user = {}
    /\ deferred_user = {}
    /\ glob = [i \in Items |-> NoRow]
    /\ user_stat = [u \in Users |-> [i \in Items |-> NoCount]]
    /\ user_detail = {}
    /\ trait = [score |-> 0, count |-> 0]
    /\ user_trait = {}
    /\ page_refresh \in [AllPages -> {NoRefresh, 0, FirstDay}]
    /\ page_refresh[1] = NoRefresh
    /\ page_refresh[MaxPage + 1] = NoRefresh
    /\ utcnow = FirstDay
    /\ fnu = FnuIdle

PagesNext ==
    \/ \E page \in Pages : FnuStart(page)
    \/ HistPage
    \/ HistCall
    \/ FnuCheck
    \/ \E o \in Outcomes, some \in BOOLEAN : FnuGetUserIds(o, some)
    \/ FnuStamp
    \/ \E ids \in SUBSET Users : FnuFilter(ids)
    \/ FnuStore
    \/ PageTick

SpecPages == PagesInit /\ [][PagesNext]_vars

\* ------------------------------------------------------------------------
\* Crawler._background_inspect_deferred on its own, the rows of
\* "deferred_user" having their inspect_time
\* ------------------------------------------------------------------------

\* inspections < defer_max_count AND inspect_time < CURRENT_TIMESTAMP
DueRows(d, t) == {r \in DeferredOpen(d) : r.inspect_time < t}

\* ORDER BY inspect_time DESC, inspections DESC
Before_latest(a, b, tie) ==
    \/ a.inspect_time > b.inspect_time
    \/ a.inspect_time = b.inspect_time /\ a.inspections > b.inspections
    \/ /\ a.inspect_time = b.inspect_time /\ a.inspections = b.inspections
       /\ IF tie = "low" THEN a.user_id < b.user_id
          ELSE a.user_id > b.user_id

\* ORDER BY inspect_time ASC, inspections DESC; the store decides between
\* rows that agree on both (tie).
Before(a, b, tie) ==
    \/ a.inspect_time < b.inspect_time
    \/ a.inspect_time = b.inspect_time /\ a.inspections > b.inspections
    \/ /\ a.inspect_time = b.inspect_time /\ a.inspections = b.inspections
       /\ IF tie = "low" THEN a.user_id < b.user_id
          ELSE a.user_id > b.user_id

\* SELECT user_id FROM "deferred_user" WHERE ... ORDER BY ... LIMIT 50
SelectDeferred(d, t, tie) ==
    LET S == DueRows(d, t)
        n == IF Cardinality(S) < BATCH_LIMIT THEN Cardinality(S)
             ELSE BATCH_LIMIT
        Ranked(k) ==
            CHOOSE r \in S :
               Cardinality({q \in S : q # r /\ Before(q, r, tie)}) = k - 1
    IN [k \in 1..n |-> Ranked(k).user_id]

\* The ids of a list.
Range(sq) == {sq[k] : k \in DOMAIN sq}

\* A table of n rows: the first late ones are not due yet, the last full
\* ones have been inspected defer_max_count times, the other ones are due
\* at times that step sets apart.
DeferredTable(n, late, full, step) ==
    {[user_id |-> i,
      inspections |-> IF i > n - full THEN defer_max_count ELSE 1,
      inspect_time |-> IF i <= late THEN FirstDay
                       ELSE (i * step) % FirstDay] : i \in 1..n}

DeferredInit ==
    /\ ApiInit /\ CrawlInit /\ LoopInit /\ PageInit /\ AvatarInit
    /\ user = {} /\ user_group = {} /\ new_user = {}
    /\ glob = [i \in Items |-> NoRow]
    /\ user_stat = [u \in Users |-> [i \in Items |-> NoCount]]
    /\ user_detail = {}
    /\ trait = [score |-> 0, count |-> 0]
    /\ user_trait = {}
    /\ \E n \in {1, 2, 3, MaxDeferred - 1, MaxDeferred},
          late \in 0..1, full \in 0..1, step \in 1..2 :
          deferred_user = DeferredTable(n, late, full, step)

\* The tick selects its ids, in the order of the SELECT; without any id
\* the tick is over.
DueSelect(tie) ==
    /\ proc["def"].pc = "idle"
    /\ LET ids == SelectDeferred(deferred_user, utcnow, tie)
       IN proc' = [proc EXCEPT !["def"] =
                     IF ids = <<>> THEN IdleProc
                     ELSE [IdleProc EXCEPT !.pc = "get_users",
                                           !.ids = Range(ids),
                                           !.batch = ids]]
    /\ UNCHANGED <<storeVars, deleted_users, cls, cls2, nops, apiVars,
                   loopVars>>
    /\ UNCHANGED avatarVars

\* user_data = yield self._api.get_users(ids=ids, per_page=50): the call
\* raises, or user_data['users'] is a list (of the users asked for, or of
\* none), or it is no list.  The inspection of the users is not part of
\* these runs.
DueGetUsers(r) ==
    /\ proc["def"].pc = "get_users"
    /\ proc' = [proc EXCEPT !["def"] =
                  CASE r = "error" -> IdleProc
                    [] r = "users" -> [@ EXCEPT !.pc = "d_done"]
                    [] r = "empty" -> [@ EXCEPT !.pc = "d_done",
                                                !.batch = <<>>]
                    [] r = "no list" -> [@ EXCEPT !.pc = "d_mark",
                                                  !.batch = <<>>]]
    /\ UNCHANGED <<storeVars, deleted_users, cls, cls2, nops, apiVars,
                   loopVars>>
    /\ UNCHANGED avatarVars

\* UPDATE "deferred_user" SET inspections=inspections+1,
\* inspect_time=CURRENT_TIMESTAMP + make_interval(secs =>
\* (defer_delay * (inspections + 1))) WHERE user_id IN ids
DueMark ==
    /\ proc["def"].pc = "d_mark"
    /\ deferred_user' =
          {IF r.user_id \in proc["def"].ids
           THEN [r EXCEPT !.inspections = r.inspections + 1,
                          !.inspect_time =
                              utcnow + defer_delay * (r.inspections + 1)]
           ELSE r : r \in deferred_user}
    /\ proc' = [proc EXCEPT !["def"].pc = "d_done"]
    /\ UNCHANGED <<user, user_group, new_user, glob, user_stat, user_detail,
                   deleted_users, cls, cls2, nops, trait, user_trait,
                   apiVars, loopVars>>
    /\ UNCHANGED avatarVars

\* 'Successfully fetched deferred users', and the next add_timeout.
DueDone ==
    /\ proc["def"].pc = "d_done"
    /\ proc' = [proc EXCEPT !["def"] = IdleProc]
    /\ UNCHANGED <<storeVars, deleted_users, cls, cls2, nops, apiVars,
                   loopVars>>
    /\ UNCHANGED avatarVars

DeferredNext ==
    \/ \E tie \in {"low", "high"} : DueSelect(tie)
    \/ \E r \in {"error", "users", "empty", "no list"} : DueGetUsers(r)
    \/ DueMark
    \/ DueDone
    \/ PageTick

SpecDeferred == DeferredInit /\ [][DeferredNext]_vars

\* fetch_new_user_ids as the newest-users loop calls it, next to the
\* new-user tick: the coroutines that fill and drain "new_user".
InboxNext ==
    \/ FnuStart(1)
    \/ FnuCheck
    \/ \E o \in Outcomes, some \in BOOLEAN : FnuGetUserIds(o, some)
    \/ FnuStamp
    \/ \E ids \in SUBSET Users : FnuFilter(ids)
    \/ FnuStore
    \/ NewSelect
    \/ GetUsers("new")
    \/ NewClean
    \/ \E p \in Procs : UFetch(p)
    \/ \E p \in Procs : UInsert(p)
    \/ \E p \in Procs : UUpdate(p)
    \/ \E p \in Procs : IEnter(p)
    \/ \E p \in Procs, o \in HeadOutcomes : IHead(p, o)
    \/ \E p \in Procs : IDelNew(p)
    \/ \E p \in Procs : IDelUser(p)
    \/ \E p \in Procs : ITok(p)
    \/ \E p \in Procs : IGlob(p)
    \/ \E p \in Procs : IUser(p)
    \/ \E p \in Procs : ITraits(p)
    \/ \E p \in Procs, age \in Ages : IDefer(p, age)
    \/ \E p \in Procs : IDetail(p)
    \/ \E p \in Procs : IAdd(p)
    \/ \E p \in Procs : IRm(p)
    \/ \E p \in Procs : UPost(p)

SpecInbox == Init /\ [][InboxNext]_vars

\* ------------------------------------------------------------------------
\* Crawler._background_inspect_new tick after tick, the platform working
\* and answering every batch with the users it has
\* ------------------------------------------------------------------------

\* Ids in "new_user" whose accounts the platform does not list (any more):
\* they are above the ids of Users.
MaxGhosts == 50
Ghosts(k) == (MaxUser + 1)..(MaxUser + k)

\* The inbox at the start: ghosts, one fewer than the limit of the SELECT
\* or as many, and some ids the platform has.
StarveInit ==
    /\ ApiInit /\ CrawlInit /\ LoopInit /\ PageInit /\ AvatarInit
    /\ user = {}
    /\ user_group = {}
    /\ \E k \in {MaxGhosts - 1, MaxGhosts} :
          \E R \in SUBSET Users : R # {} /\ new_user = Ghosts(k) \cup R
    /\ deferred_user = {}
    /\ glob = [i \in Items |-> NoRow]
    /\ user_stat = [u \in Users |-> [i \in Items |-> NoCount]]
    /\ user_detail = {}
    /\ trait = [score |-> 0, count |-> 0]
    /\ user_trait = {}

\* _background_inspect_new, any tick however many went before: the inbox is
\* read.
NewSelectAgain ==
    /\ proc["new"].pc = "idle"
    /\ new_user # {}
    /\ proc' = [proc EXCEPT !["new"] = StartTick("new", SelectNew(new_user))]
    /\ UNCHANGED <<storeVars, deleted_users, cls, cls2, nops, apiVars,
                   loopVars, avatarVars>>

\* get_users(ids=ids) answered with the list of the users the platform
\* has among the ids, highest id first.
GetUsersServed ==
    /\ proc["new"].pc = "get_users"
    /\ proc' = [proc EXCEPT !["new"] =
                   UsersListed("new", @, SortDesc(@.ids \cap Users))]
    /\ UNCHANGED <<storeVars, deleted_users, cls, cls2, nops, apiVars,
                   loopVars, avatarVars>>

StarveNext ==
    \/ NewSelectAgain
    \/ GetUsersServed
    \/ NewClean
    \/ UFetch("new")
    \/ UInsert("new")
    \/ UUpdate("new")
    \/ IEnter("new")
    \/ \E o \in HeadOutcomes : IHead("new", o)
    \/ IDelNew("new")
    \/ IDelUser("new")
    \/ ITok("new")
    \/ IGlob("new")
    \/ IUser("new")
    \/ ITraits("new")
    \/ \E age \in Ages : IDefer("new", age)
    \/ IDetail("new")
    \/ IAdd("new")
    \/ IRm("new")
    \/ UPost("new")

\* The loop is always rescheduled and the store answers: the coroutine of
\* the tick never stops for good while it has a step to take.  And the
\* platform works: the HEAD of a profile and the requests of the links are
\* not failing for ever.
StarveFairness ==
    /\ WF_vars(StarveNext)
    /\ SF_vars(IHead("new", "ok"))
    /\ SF_vars(ITok("new") /\ proc'["new"].pc = "i_glob")

SpecStarve == StarveInit /\ [][StarveNext]_vars /\ StarveFairness

\* The crawler and two executions of ClassifyHandler.post: nothing keeps a
\* second request from being served while the first waits on the store.
VerdictsNext ==
    \/ Next
    \/ \E u \in Users, v \in Verdicts : VStart(2, u, v)
    \/ VDel(2)
    \/ VIns(2)
    \/ VHost(2)
    \/ VWord(2)
    \/ VAdj(2)
    \/ VAdjIns(2)
    \/ VTraits(2)
    \/ VDrop(2)
    \/ VUndefer(2)

SpecVerdicts == Init /\ [][VerdictsNext]_vars

\* ------------------------------------------------------------------------
\* Properties of the inspection pipeline and of the verdicts
\* ------------------------------------------------------------------------

InManual(ug, u) == GroupsOf(ug, u) \cap ManualGroups # {}
InAuto(ug, u) == GroupsOf(ug, u) \cap AutoGroups # {}

\* Coroutine p takes a step.
Steps(p) == proc'[p] # proc[p]

\* C3: in every reachable state, however an inspection of a user and a
\* verdict on that user interleave, no user is in a manual group (legit,
\* suspect) and in an auto group (auto_legit, auto_suspect) at once.
C3_ManualExcludesAuto ==
    \A u \in Users : ~(InManual(user_group, u) /\ InAuto(user_group, u))

\* C4: when the inspection of a user who had no verdict on entry has run to
\* its end (and the user still has a row), the user is in exactly one auto
\* group, auto_suspect if match is true and auto_legit otherwise; an
\* inspection of a user who had a verdict on entry adds no auto group.
C4_ExactlyOneAutoGroup ==
    [][\A p \in Procs :
         LET u == proc[p].call.u
         IN /\ (proc[p].pc = "i_rm" /\ Steps(p) /\ u \in user') =>
                  GroupsOf(user_group', u) \cap AutoGroups
                      = {AutoGroupFor(proc[p].call.match)}
            /\ (proc[p].pc = "i_head" /\ Steps(p) /\ proc[p].call.classified) =>
                  proc'[p].pc \notin {"i_tok", "i_add"}
      ]_vars

\* C5: when the handler of a verdict v on user u has run to its end (and
\* the user still has a row), u is in group v and in none of auto_legit,
\* auto_suspect and the other manual group.
C5_VerdictGroups ==
    [][(cls.pc = "v_undefer" /\ cls'.pc = "idle" /\ cls.u \in user') =>
          GroupsOf(user_group', cls.u) \cap (ManualGroups \cup AutoGroups)
              = {cls.v}
      ]_vars

\* What the claim says of one UPDATE of the corpus for the verdict on u:
\* every row of the table that u refers to with count c gets inc * c on its
\* score and c on its count, every other global row stays as it is.
CorpusCounted(table) ==
    LET u == cls.u
        inc == IF cls.v = "legit" THEN 1 ELSE -1
    IN \A i \in Items :
          IF i \in table /\ HasRow(glob, i) /\ user_stat[u][i] > 0
          THEN /\ glob'[i].score = glob[i].score + inc * user_stat[u][i]
               /\ glob'[i].count = glob[i].count + user_stat[u][i]
          ELSE glob'[i] = glob[i] \/ (i \in Pairs /\ ~HasRow(glob, i))

\* C6: a verdict adds direction * c to the score and c to the count of the
\* global Hostname, Word and WordAdjacent row of every per-user row of u
\* with count c, creates the WordAdjacent rows that are missing and leaves
\* the other global rows alone; right after it every WordAdjacent row u
\* refers to has a count of at least u's count for that pair.
C6_VerdictCountsCorpus ==
    [][/\ (cls.pc = "v_host" /\ cls' # cls) => CorpusCounted(Hostnames)
       /\ (cls.pc = "v_word" /\ cls' # cls) => CorpusCounted(Words)
       /\ (cls.pc = "v_adj" /\ cls' # cls) => CorpusCounted(Pairs)
       /\ (cls.pc = "v_adjins" /\ cls' # cls) =>
             /\ \A i \in Items \ Pairs : glob'[i] = glob[i]
             /\ \A i \in Pairs :
                   user_stat'[cls.u][i] > 0 =>
                      /\ HasRow(glob', i)
                      /\ glob'[i].count >= user_stat'[cls.u][i]
      ]_vars

NoDependentRows(ug, d, us, ud, ut, u) ==
    /\ GroupsOf(ug, u) = {}
    /\ \A r \in d : r.user_id # u
    /\ \A i \in Items : us[u][i] = NoCount
    /\ u \notin ud
    /\ u \notin ut

C9_DeletedStaysDeleted ==
    \A u \in deleted_users : u \notin user

\* C10: when a user of a batch raises InvalidUser the other users of the
\* batch are still inspected in the same tick, in the NewUser tick as in
\* the DeferredUser tick.
C10_BatchGoesOn ==
    [][\A p \in Loops :
         (proc[p].pc = "i_deluser" /\ Steps(p) /\ Len(proc[p].batch) > 1) =>
            proc'[p].pc # "idle"
      ]_vars

\* ------------------------------------------------------------------------
\* Properties of the rate limited client
\* ------------------------------------------------------------------------

\* C1: whatever the interleaving of the coroutines sharing the client, at
\* most one request issued through api_fetch is in flight at any instant;
\* every other caller is waiting for the semaphore or outside api_fetch.
C1_OneRequestInFlight ==
    /\ Cardinality(in_flight) <= 1
    /\ \A c \in Callers : cpc[c] \in {"sleep", "fetch"} =>
           \A d \in Callers \ {c} : cpc[d] \in {"idle", "acquire"}

\* A request is in flight while a second caller waits at the gate.
C1_Witness ==
    \E c, d \in Callers : c # d /\ cpc[c] = "fetch" /\ cpc[d] = "acquire"

\* C2: a request starts no earlier than rqlim_time after the request before
\* it completed, whether that one returned a response or raised.
C2_IntervalAfterEveryCompletion ==
    start_gap = -1 \/ start_gap >= RqlimTime

\* C13: a request that fails with HTTP 403 sets forbidden_until to now +
\* 3600 s, one that fails with a connection reset to now + 900 s; the error
\* is raised to the caller; is_forbidden is true at every time before
\* forbidden_until and false from forbidden_until on.
C13_ForbiddenWindow ==
    /\ [][\A c \in Callers :
            (cpc[c] = "fetch" /\ cpc'[c] = "idle") =>
               /\ last_out' = "http403" =>
                     forbidden_expiry' = now + FORBIDDEN_403
               /\ last_out' = "reset" =>
                     forbidden_expiry' = now + FORBIDDEN_RESET
               /\ last_out' \in {"http403", "reset"} =>
                     ~last_end_ok' /\ is_forbidden'
         ]_vars
    /\ [](forbidden_expiry # -1 => (is_forbidden <=> now < forbidden_expiry))

\* A request failed with 403 and the back-off it set has run out.
C13_Witness ==
    /\ last_out = "http403"
    /\ forbidden_expiry # -1 /\ now >= forbidden_expiry
    /\ ~is_forbidden

\* C14: when is_forbidden is true and a request completes with a
\* response, is_forbidden is false right afterwards, for a JSON API call
\* (_api_call) and for a call of api_fetch itself alike.
C14_SuccessClearsForbidden ==
    [][\A c \in Callers :
          (cpc[c] = "fetch" /\ cpc'[c] = "idle" /\ last_end_ok'
              /\ is_forbidden) => ~is_forbidden'
      ]_vars

\* ------------------------------------------------------------------------
\* Properties of the loop drivers
\* ------------------------------------------------------------------------

\* C11: every tick of each of the four loops ends by scheduling exactly
\* one next tick, whatever is raised inside it, so each loop has exactly
\* one tick pending or running at all times.
C11_OneTickPerLoop ==
    \A l \in BackgroundLoops :
       pending[l] + (IF lpc[l] = "waiting" THEN 0 ELSE 1) = 1

\* C12: a drain tick that starts while is_forbidden is true makes no
\* request, changes no store row and schedules its next tick after
\* api_blocked_delay; one that starts while is_forbidden is false
\* schedules the next tick after the loop's check interval.
C12_ForbiddenTickSkips ==
    \A l \in DrainLoops :
       /\ lpc[l] # "waiting" => ~began_forbidden[l]
       /\ began_forbidden[l] => touched[l] = {}
       /\ (lpc[l] = "waiting" /\ began_forbidden[l]) =>
             /\ pending[l] = 1
             /\ ldelay[l] = "api_blocked_delay"
       /\ (lpc[l] = "waiting" /\ ~began_forbidden[l]) =>
             /\ pending[l] = 1
             /\ ldelay[l] \in {"init_delay", Interval(l)}

\* The API is forbidden and a drain tick has just been put off.
C12_Witness ==
    \E l \in DrainLoops :
       /\ is_forbidden /\ began_forbidden[l]
       /\ lpc[l] = "waiting" /\ ldelay[l] = "api_blocked_delay"

\* ------------------------------------------------------------------------
\* Verdicts applied one after the other
\* ------------------------------------------------------------------------

\* Nobody but u is or was in the store, three operations have begun and all
\* have ended (the log-in that inspected u and two verdicts), the later
\* verdict was suspect, and the word w1 is the only item counted, by a
\* verdict legit before it: u was inspected with the tally {w1: 3} alone.
JudgedLegitThenSuspect(u) ==
    /\ user = {u} /\ deleted_users = {} /\ new_user = {}
    /\ nops = 3
    /\ cls.pc = "idle" /\ \A p \in Procs : proc[p].pc = "idle"
    /\ "suspect" \in GroupsOf(user_group, u)
    /\ HasRow(glob, "w1") /\ glob["w1"].count >= 3 /\ glob["w1"].score >= 0
    /\ \A i \in Items \ {"w1"} : ~HasRow(glob, i)

\* C15: a user whose only per-user counter is the word w1 three times:
\* after the verdict legit and a following verdict suspect the global row
\* of w1 has count +6 and score +0, the user is in suspect and not in
\* legit, and still has the per-user row (w1: 3).
C15_LegitThenSuspect ==
    \A u \in Users :
       JudgedLegitThenSuspect(u) =>
          /\ glob["w1"] = [score |-> 0, count |-> 6]
          /\ user_stat[u]["w1"] = 3
          /\ "legit" \notin GroupsOf(user_group, u)

\* C16: the verdict legit given to a user who has the verdict legit already
\* changes no row of hostname, word and word_adjacent and no score or count
\* of a trait, and leaves the user in legit and in no other verdict or auto
\* group.
C16_SecondLegitChangesNothing ==
    [][(cls.v = "legit" /\ cls.had = {"legit"} /\ cls' # cls) =>
          /\ glob' = glob
          /\ trait' = trait
          /\ cls.pc = "v_undefer" =>
                GroupsOf(user_group', cls.u) \cap (ManualGroups \cup AutoGroups)
                    = {"legit"}
      ]_vars

\* The detail row, per-user counters and per-user trait row of user u.
DetailRows(ud, us, ut, u) == <<u \in ud, us[u], u \in ut>>

\* C17: the verdict legit deletes the user's detail row, per-user counters
\* and per-user trait rows; the verdict suspect leaves all of them as they
\* were; after either the user has no deferred_user row and still has its
\* User row.
C17_VerdictAndDetail ==
    [][cls' # cls =>
          /\ user' = user
          /\ cls.v = "suspect" =>
                DetailRows(user_detail', user_stat', user_trait', cls.u)
                    = DetailRows(user_detail, user_stat, user_trait, cls.u)
          /\ (cls.v = "legit" /\ cls.pc = "v_drop") =>
                DetailRows(user_detail', user_stat', user_trait', cls.u)
                    = <<FALSE, [i \in Items |-> NoCount], FALSE>>
          /\ cls.pc = "v_undefer" =>
                ~\E r \in deferred_user' : r.user_id = cls.u
      ]_vars

\* ------------------------------------------------------------------------
\* Deferral and re-inspection
\* ------------------------------------------------------------------------

\* The deferred_user rows of user u.
DeferredRows(d, u) == {r \in d : r.user_id = u}

\* C18: the first inspection of a user whose account is younger than
\* defer_min_age leaves a deferred_user row with inspections = 1; every
\* re-inspection of a deferred user by the deferred tick that finds the
\* user still to be deferred adds one to inspections (and otherwise takes
\* the row away), so that the row of a user the deferred tick has gone
\* through has inspections >= 2.
C18_DeferralCounts ==
    [][/\ \A p \in Procs :
             (/\ proc[p].pc = "i_defer" /\ proc'[p].pc = "i_detail"
              /\ proc[p].call.isNew
              /\ ShouldDefer(TRUE, proc[p].call.belowHalf, "young")
              /\ DeferredRows(deferred_user, proc[p].call.u) = {}) =>
                 DeferredRows(deferred_user', proc[p].call.u)
                    = {[user_id |-> proc[p].call.u, inspections |-> 1]}
       /\ (/\ proc["def"].pc = "u_post" /\ proc'["def"] # proc["def"]
           /\ ~proc["def"].call.classified
           /\ proc["def"].call.u \in user \ deleted_users) =>
              \A r \in DeferredRows(deferred_user', proc["def"].call.u) :
                 r.inspections >= 2
      ]_vars

\* The positions of _inspect_user from the HEAD request on, the deletion
\* of a user the platform no longer has left out.
InspectPcs == {"i_head", "i_tok", "i_glob", "i_user", "i_traits", "i_defer",
               "i_detail", "i_add", "i_rm"}

RowsOfTally(freq) == [i \in Items |-> IF freq[i] >= 1 THEN freq[i] ELSE NoCount]

\* C20: when the inspection of a user found without a verdict completes
\* (and the user has not been deleted), the user's per-user rows are exactly the items tallied at least once in
\* that inspection, each with its tally, and no per-user row has a count
\* below 1 in any reachable state.
C20_PerUserRows ==
    /\ [][\A p \in Procs :
             (/\ proc[p].pc = "i_rm" /\ proc'[p].pc = "u_post"
              /\ ~proc[p].call.classified
              /\ proc[p].call.u \in user) =>
                 user_stat'[proc[p].call.u] = RowsOfTally(proc[p].call.freq)
        ]_vars
    /\ [](\A u \in Users, i \in Items :
             user_stat[u][i] = NoCount \/ user_stat[u][i] >= 1)

\* ------------------------------------------------------------------------
\* The two auto groups
\* ------------------------------------------------------------------------

C22_GaierrorRetried ==
    [][\A c \in Callers :
          (cpc[c] = "fetch" /\ cpc'[c] # "fetch" /\ last_out' = "gaierror") =>
             /\ cpc'[c] = "sleep"
             /\ rq_sem' = rq_sem
             /\ last_rq' = last_rq
      ]_vars

\* ------------------------------------------------------------------------
\* The heuristic score on its own (crawler.py, lines 504-617)
\* ------------------------------------------------------------------------

\* The global rows and the trait rows an inspection can have fetched.
ScoreRows == {[score |-> -1, count |-> 1], [score |-> 1, count |-> 2],
              [score |-> 0, count |-> 0]}
TraitRows == {[score |-> 0, count |-> 0], [score |-> -1, count |-> 1]}

\* The inspection of user 1 by a log-in stands at `score = []`.
ScoreInit ==
    /\ ApiInit /\ LoopInit /\ PageInit /\ AvatarInit
    /\ user = {1}
    /\ user_group = {} /\ new_user = {} /\ deferred_user = {}
    /\ glob = [i \in Items |-> NoRow]
    /\ user_stat = [u \in Users |-> [i \in Items |-> NoCount]]
    /\ user_detail = {} /\ user_trait = {}
    /\ trait = [score |-> 0, count |-> 0]
    /\ deleted_users = {}
    /\ proc = [p \in Procs |->
                 IF p = "fe"
                 THEN [IdleProc EXCEPT !.pc = "i_user", !.call.u = 1,
                                       !.call.isNew = TRUE]
                 ELSE IdleProc]
    /\ cls = IdleCls
    /\ cls2 = IdleCls
    /\ nops = 1

\* if w.count > 0: score.append(float(w.score) / float(w.count)), for a
\* word, a hostname or a word pair of the user with global row w
AppendGlobal(w) ==
    /\ proc["fe"].pc = "i_user"
    /\ Len(proc["fe"].call.score) < MaxScores
    /\ proc' = [proc EXCEPT !["fe"].call.score =
                    IF w.count > 0 THEN Append(@, <<w.score, w.count>>) ELSE @]
    /\ UNCHANGED <<storeVars, deleted_users, cls, cls2, nops, apiVars, loopVars>>
    /\ UNCHANGED avatarVars

\* score.append(trait.weighted_score), in the loop that follows the three
\* loops over the global rows
AppendTrait(t) ==
    /\ proc["fe"].pc \in {"i_user", "i_traits"}
    /\ Len(proc["fe"].call.score) < MaxScores
    /\ proc' = [proc EXCEPT !["fe"].pc = "i_traits",
                            !["fe"].call.score = Append(@, weighted_score(t))]
    /\ UNCHANGED <<storeVars, deleted_users, cls, cls2, nops, apiVars, loopVars>>
    /\ UNCHANGED avatarVars

\* score.sort(); score = sum(score[:10])
ScoreSum ==
    /\ proc["fe"].pc \in {"i_user", "i_traits"}
    /\ proc' = [proc EXCEPT !["fe"].pc = "i_defer",
                            !["fe"].call.score = <<Score(@)>>]
    /\ UNCHANGED <<storeVars, deleted_users, cls, cls2, nops, apiVars, loopVars>>
    /\ UNCHANGED avatarVars

ScoreNext ==
    \/ \E w \in ScoreRows : AppendGlobal(w)
    \/ \E t \in TraitRows : AppendTrait(t)
    \/ ScoreSum

SpecScore == ScoreInit /\ [][ScoreNext]_vars

\* Equal quotients.
RatEq(a, b) == a[1] * b[2] = b[1] * a[2]

\* A largest entry of a list, and the list without it.
MaxIndex(sq) ==
    CHOOSE k \in DOMAIN sq : \A j \in DOMAIN sq : ~RatLess(sq[k], sq[j])
Without(sq, k) == SubSeq(sq, 1, k - 1) \o SubSeq(sq, k + 1, Len(sq))

\* The sum of the n smallest entries of a list: largest entries are taken
\* away until n are left.
RECURSIVE SumSmallest(_, _)
SumSmallest(sq, n) ==
    IF Len(sq) <= n THEN SumRat(sq)
    ELSE SumSmallest(Without(sq, MaxIndex(sq)), n)

HasYoungRefresh(page, t) ==
    /\ page_refresh[page] # NoRefresh
    /\ t - page_refresh[page] < THIRTY_DAYS

\* C24: a page whose refresh timestamp is less than thirty days old is
\* skipped without a request; a page with no timestamp or an older one is
\* requested, and once its answer came back with users its refresh
\* timestamp is set to the current time.
C24_PagesByRefreshAge ==
    [][/\ (fnu.pc = "check" /\ fnu' # fnu /\ fnu.pages < MAX_PAGES) =>
             IF HasYoungRefresh(fnu.page, fnu.now)
             THEN fnu'.pc = "check" /\ fnu'.page = fnu.page + 1
             ELSE fnu'.pc = "request" /\ fnu'.page = fnu.page
       /\ (fnu.pc = "stamp" /\ fnu' # fnu) =>
             page_refresh'[fnu.page] = fnu.now
      ]_vars

\* ------------------------------------------------------------------------
\* Properties of the deferral step
\* ------------------------------------------------------------------------

\* The deferral step left no row of u.
NotDeferred(u) == \A r \in deferred_user' : r.user_id # u

\* The deferral step wrote the row of u or advanced its count.
RowWrittenOrAdvanced(u) ==
    /\ \E r \in deferred_user' : r.user_id = u
    /\ \A r \in deferred_user' : r.user_id = u =>
          IF \E q \in deferred_user : q.user_id = u
          THEN \E q \in deferred_user :
                  q.user_id = u /\ r.inspections = q.inspections + 1
          ELSE r.inspections = 1

\* C25: at the deferral step with defer = true, a strong score
\* (|score| >= 0.5) at an age of defer_min_age or more leaves the user
\* without a deferred_user row, an age of defer_max_age or more never
\* defers, and in the remaining case the row is written or advanced.
C25_DeferralByScoreAndAge ==
    [][\A p \in Procs :
          (proc[p].pc = "i_defer" /\ proc'[p].pc = "i_detail") =>
             LET c == proc'[p].call
             IN /\ (c.strong /\ c.age # "young") => NotDeferred(c.u)
                /\ c.age = "old" => NotDeferred(c.u)
                /\ (c.age # "old" /\ (c.age = "young" \/ ~c.strong)) =>
                      RowWrittenOrAdvanced(c.u)
      ]_vars

\* ------------------------------------------------------------------------
\* Properties of concurrent verdicts
\* ------------------------------------------------------------------------

\* C26: two executions of ClassifyHandler.post leave the store as one of
\* the two sequential orders would; in particular, once both are over no
\* user is in legit and in suspect at once.
C26_VerdictsSerialisable ==
    (cls.pc = "idle" /\ cls2.pc = "idle") =>
       \A u \in Users : ~(ManualGroups \subseteq GroupsOf(user_group, u))

\* ------------------------------------------------------------------------
\* Properties of the deferred tick
\* ------------------------------------------------------------------------

\* The row of user u.
DeferredRow(u) == CHOOSE r \in deferred_user : r.user_id = u

\* C27: a deferred tick selects only rows with inspections <
\* defer_max_count and inspect_time < now, at most 50 of them and in
\* ascending order of inspect_time; a row that has reached
\* defer_max_count is not among them.
C27_DeferredSelection ==
    [][(proc["def"].pc = "idle" /\ proc'["def"].pc = "get_users") =>
          LET ids == proc'["def"].batch
          IN /\ Len(ids) <= 50
             /\ \A k \in DOMAIN ids :
                   /\ \E r \in deferred_user : r.user_id = ids[k]
                   /\ DeferredRow(ids[k]).inspections < defer_max_count
                   /\ DeferredRow(ids[k]).inspect_time < utcnow
             /\ \A k \in DOMAIN ids : \A j \in DOMAIN ids :
                   k < j => DeferredRow(ids[k]).inspect_time
                               <= DeferredRow(ids[j]).inspect_time
      ]_vars

\* A tick has selected 50 rows of different times and left out a row that
\* is due, a row that is not due yet and a row that reached the count.
C27_Witness ==
    /\ proc["def"].pc = "get_users"
    /\ Len(proc["def"].batch) = 50
    /\ \E k \in 1..49 :
          DeferredRow(proc["def"].batch[k]).inspect_time
             < DeferredRow(proc["def"].batch[k + 1]).inspect_time
    /\ \E r \in deferred_user :
          /\ r.user_id \notin proc["def"].ids
          /\ r.inspections < defer_max_count /\ r.inspect_time < utcnow
    /\ \E r \in deferred_user :
          r.inspections < defer_max_count /\ r.inspect_time >= utcnow
    /\ \E r \in deferred_user :
          r.inspections >= defer_max_count /\ r.inspect_time < utcnow

\* C28: a deferred tick that asked for ids and got an answer without
\* users has, for every row it asked for, added one to inspections and set
\* inspect_time to now + defer_delay * (inspections + 1).
C28_EmptyBatchMarks ==
    [][(/\ proc["def"].pc \in {"get_users", "d_mark"}
        /\ proc'["def"].pc = "d_done"
        /\ proc'["def"].batch = <<>>) =>
          \A u \in proc["def"].ids :
             \E r \in deferred_user, q \in deferred_user' :
                /\ r.user_id = u /\ q.user_id = u
                /\ q.inspections = r.inspections + 1
                /\ q.inspect_time =
                      utcnow + defer_delay * (r.inspections + 1)
      ]_vars

\* ------------------------------------------------------------------------
\* Properties of the new-user tick
\* ------------------------------------------------------------------------

\* C29: a new-user tick selects at most 50 ids of "new_user", the highest
\* ones; when the tick is over every selected id that has a User row has
\* no "new_user" row any more, and every selected id without a User row
\* still has one.
C29_NewUserTick ==
    [][/\ (proc["new"].pc = "idle" /\ proc'["new"].pc # "idle") =>
             LET ids == proc'["new"].ids
             IN /\ Cardinality(ids) <= 50
                /\ ids \subseteq new_user
                /\ \A i \in ids : \A j \in new_user \ ids : i > j
       /\ (proc["new"].pc # "idle" /\ proc'["new"].pc = "idle") =>
             \A u \in proc["new"].ids :
                IF u \in user' THEN u \notin new_user'
                ELSE u \in new_user'
      ]_vars

\* ------------------------------------------------------------------------
\* Properties of the discovery loops
\* ------------------------------------------------------------------------

\* C30: while is_forbidden is true, no discovery loop issues a request:
\* the listing request of a tick is only made when the API is not
\* forbidden.
C30_DiscoveryQuietWhenForbidden ==
    [][\A l \in DiscoveryLoops :
          (/\ lpc[l] = "body"
           /\ \/ lpc'[l] # "body"
              \/ pending'[l] # pending[l]
              \/ touched'[l] # touched[l]) => ~is_forbidden
      ]_vars

\* ------------------------------------------------------------------------
\* Properties of one call of fetch_new_user_ids
\* ------------------------------------------------------------------------

\* C31: one call of fetch_new_user_ids asks the platform for a page only
\* while it has fetched fewer than 10 pages and accumulated fewer than 10
\* new ids.
C31_StopsAtTenIdsOrTenPages ==
    [][(fnu.pc = "request" /\ fnu' # fnu) =>
          fnu.pages < 10 /\ fnu.found < 10
      ]_vars

\* C32: when fetch_new_user_ids has processed a page, every id of the page
\* that had no User row is in "new_user", and no id that has a User row
\* has got a new "new_user" row, whatever the other coroutines do with
\* the same id in the meantime.
C32_InboxOnlyUnknownIds ==
    [][(fnu.pc = "insert" /\ fnu'.pc # "insert") =>
          /\ fnu.ids \subseteq new_user'
          /\ \A u \in new_user' \ new_user : u \notin user'
      ]_vars

\* C33: an empty listing makes fetch_new_user_ids raise NoUsersReturned
\* without a refresh timestamp and without a "new_user" row; the
\* historical loop then keeps its page and takes
\* old_user_fetch_interval_lastpage for its next tick; and the page of the
\* historical loop never decreases.
C33_LastPageReached ==
    [][/\ (fnu.pc = "request" /\ fnu'.pc = "idle"
             /\ fnu'.result = "NoUsersReturned") =>
             /\ page_refresh' = page_refresh
             /\ new_user' = new_user
             /\ fnu.caller = "hist" =>
                   /\ refresh_hist_page' = refresh_hist_page
                   /\ ldelay'["fetch_hist_users"]
                         = "old_user_fetch_interval_lastpage"
       /\ refresh_hist_page' >= refresh_hist_page
       /\ (fnu.caller = "hist" /\ fnu'.pc = "idle"
             /\ fnu'.result # "NoUsersReturned") =>
             ldelay'["fetch_hist_users"] = "old_user_fetch_interval"
      ]_vars

\* The historical loop has advanced its page and then met the empty page.
C33_Witness ==
    /\ fnu.pc = "idle" /\ fnu.result = "NoUsersReturned"
    /\ ldelay["fetch_hist_users"] = "old_user_fetch_interval_lastpage"
    /\ refresh_hist_page > fetch_last_refresh_page(page_refresh)
    /\ fetch_last_refresh_page(page_refresh) # NoPage

\* C34: no step removes a global Hostname, Word or WordAdjacent row; a
\* step that is not one of apply_verdict leaves the score and the count of
\* every such row as they are, and a row it adds has score 0 and count 0.
C34_InspectionKeepsGlobalRows ==
    [][/\ \A i \in Items : HasRow(glob, i) => HasRow(glob', i)
       /\ (cls' = cls /\ cls2' = cls2) =>
             \A i \in Items :
                IF HasRow(glob, i) THEN glob'[i] = glob[i]
                ELSE glob'[i] \in {NoRow, [score |-> 0, count |-> 0]}
      ]_vars

\* An inspection is past its INSERTs of the global rows, one of its items
\* having a row that a verdict has counted up and another a fresh row.
C34_Witness ==
    \E p \in Procs, i, j \in Items :
       /\ proc[p].pc = "i_user"
       /\ proc[p].call.freq[i] > 0 /\ glob[i].count > 0
       /\ proc[p].call.freq[j] > 0 /\ glob[j] = [score |-> 0, count |-> 0]

\* The steps of _inspect_user from the HEAD request on, the deletion of a
\* user the platform no longer has included.
AllInspectPcs == InspectPcs \cup {"i_delnew", "i_deluser"}

C36_AvatarFetchedOnce ==
    [][\A url \in Urls :
         /\ Cardinality(AvatarRows(avatar', url)) <= 1
         /\ downloads'[url] <= 1
         /\ (\E r \in AvatarRows(avatar, url) : r.avatar_type # NoType) =>
               /\ \A c \in AvCallers :
                     (av[c].pc = "request" /\ av[c].url = url) =>
                        av'[c] = av[c]
               /\ AvatarRows(avatar', url) = AvatarRows(avatar, url)
      ]_vars

\* C37: a request that ends, in a response or in any exception, gives the
\* slot back; there is never more than one free slot; and every caller
\* that waits for the slot gets it.
C37_GateReleasedAndAcquired ==
    /\ [][\A c \in Callers :
            (cpc[c] = "fetch" /\ cpc'[c] = "idle") => rq_sem' = rq_sem + 1
         ]_vars
    /\ [](rq_sem \in {0, 1})
    /\ \A c \in Callers : (cpc[c] = "acquire") ~> (cpc[c] = "sleep")

\* A caller holds the slot after a request that failed, while another
\* caller waits.
C37_Witness ==
    \E c, d \in Callers :
       /\ c # d
       /\ cpc[c] = "sleep" /\ cpc[d] = "acquire"
       /\ last_out \in {"http403", "httperr", "reset", "gaierror"}

\* C38: a classify request whose string is neither legit nor suspect
\* leaves the store as it is: no step of its handler changes a group
\* membership, a per-user row, a deferred_user row or a global row.
C38_UnknownVerdictChangesNothing ==
    [][/\ (cls.v = "other" /\ cls' # cls) => storeVars' = storeVars
       /\ (cls2.v = "other" /\ cls2' # cls2) => storeVars' = storeVars
      ]_vars

\* C39: every id in "new_user" that the platform has is selected by some
\* later tick of the drain loop (and so can be inspected and removed),
\* whatever ids the platform does not have are in "new_user" with it.
C39_EveryServedIdSelected ==
    \A u \in Users : (u \in new_user) ~> (u \in proc["new"].ids)

\* C40: when a tick of the deferred loop that got a list with users in it
\* is over, every row it selected whose id the platform left out of the
\* list is gone or has more inspections than when it was selected.
C40_OmittedRowsAdvance ==
    [][(proc["def"].pc = "u_post" /\ proc'["def"].pc = "idle") =>
          \A r \in proc["def"].sel :
             r.user_id \notin proc["def"].listed =>
                \/ \A q \in deferred_user' : q.user_id # r.user_id
                \/ \E q \in deferred_user' :
                      /\ q.user_id = r.user_id
                      /\ q.inspections > r.inspections
      ]_vars

====
